---------------------------- MODULE Spec2Model ----------------------------
(***************************************************************************)
(* Verification model of the RS-Rating pipeline:                           *)
(*   - the relative-strength functions of scripts/calculate_rs_from_db.py  *)
(*   - the RS run (main) of scripts/calculate_rs_from_db.py                *)
(*   - the ArcticDB shard merger of scripts/merge_arcticdb.py              *)
(*   - process_batch of scripts/build_ticker_price.py                      *)
(*                                                                         *)
(* Floats are modelled as exact rationals [n, d] with d > 0; NaN is the    *)
(* record with d = 0.  Prices are small positive integers.                 *)
(***************************************************************************)
EXTENDS Integers, Sequences, FiniteSets, TLC

VARIABLES
    \* --- relative-strength functions applied to one pair of series ---
    closes,          \* id of the ticker's close series
    closes_ref,      \* id of the benchmark's close series
    rs_out,          \* value returned by relative_strength
    quarter_perfs,   \* quarters_perf(closes, 1..4)
    strength_out,    \* value returned by strength(closes)
    rs_short,        \* short_relative_strength for 21, 63 and 126 days
    fpc,             \* "init" | "done"
    \* --- the RS run: main of calculate_rs_from_db.py ---
    store_ok,        \* load_arctic_db can open the store and its library
    lib,             \* the price store: symbol -> entry
    meta_ok,         \* a usable metadata file was given
    mtype,           \* metadata: ticker -> security type
    rpc,             \* position of main
    tickers,         \* lib.list_symbols()
    idx,             \* position of the scoring loop in tickers
    insufficient_tickers,
    rs_results,      \* rows (ticker, RS, 1M_RS, 3M_RS, 6M_RS)
    df_stocks,       \* the stock table being built
    files,           \* output files written so far: name -> content
    rating_args,     \* the arguments of generate_tradingview_csv, once it is called
    \* --- the shard merger: merge_arcticdb of merge_arcticdb.py ---
    shards,          \* the arctic-db-<i> stores under source_root
    dest,            \* the destination library: symbol -> frames it holds
    mpc,             \* position of merge_arcticdb
    mrun,            \* "first" | "again_fresh" | "again_same"
    first_dest,      \* the destination the first merge left
    src_dirs,        \* sorted(src_dirs)
    si,              \* position in src_dirs
    symbols,         \* src_lib.list_symbols() of the current shard
    yi,              \* position in symbols
    total_merged,
    shard_merged,
    all_symbols,
    duplicate_symbols,
    failed_symbols,
    merged_log,      \* the (shard, symbol) pairs reported merged
    merge_summary,   \* the merge summary printed at the end
    \* --- the price build: main and process_batch of build_ticker_price.py ---
    plan,            \* outcome of the 1st, 2nd, 3rd batch request to the provider
    quotes,          \* what the provider holds for each symbol
    bpc,             \* position of main
    batch_calls,     \* batch requests issued so far
    all_prices,      \* symbol -> price, as (symbol, price) pairs
    all_failed_tickers,
    part_file,       \* the ticker_price_part file
    ticker_price,    \* data/ticker_price.json, and whether merge_price_files has run
    \* --- two metadata runs (phase 1 of build_ticker_info.py), parts 0 and 1 ---
    force_refresh,   \* the --force-refresh flag of both runs
    answers,         \* what the provider holds for each symbol
    fs_part,         \* data/ticker_info_part_<p>.json, for each p
    fs_unresolved,   \* data/unresolved_tickers.txt
    fs_summary,      \* data/partition_summary.json
    written_by,      \* for each file, the runs that wrote it
    ipc,             \* position of main, for each run
    existing,        \* symbol -> entry, for each run
    todo,
    ibatch,          \* the batch process_batch was called with
    attempt,         \* batch requests made by the current process_batch
    all_unresolved,
    updated_total,
    last_return,     \* what the last process_batch returned
    passes,          \* for each symbol, the process_batch calls it was part of
    unresolved_final,
    \* --- the percentiles of one column of scores (lines 260-266) ---
    col_values,      \* df_stocks[col]: the raw scores, NaN where undefined
    col_percentile,  \* df_stocks[col + " Percentile"]
    cpc,             \* "init" | "done"
    \* --- the partitions of one ticker list ---
    plist,           \* the list every partition job starts from
    ptotal,          \* --part-total
    pscheme,         \* "price": build_ticker_price.py, "info": build_ticker_info.py
    pslices,         \* part index -> the slice its job took, once it has run
    \* --- process_nasdaq_file of update_stocks.py ---
    u_ticker_info,     \* ticker_info: the symbols that have an entry
    u_failed_symbols,  \* failed_symbols
    u_i,               \* i: the start of the current batch (0-based)
    u_results,         \* results of the current batch
    u_k,               \* how many of them the loop of line 99 has handled
    u_raised,          \* the symbols whose process_symbol call raised
    u_files,           \* the files written: name -> content
    upc,               \* "batch" | "results" | "save" | "done"
    \* --- merge_ticker_info of merge_ticker_info.py ---
    mi_files,        \* the ticker_info_part_*.json files: id -> content
    ticker_files,    \* the list glob.glob returns
    mi_pos,          \* how many files of the list the loop has handled
    merged,          \* merged: symbol -> record
    mi_out,          \* data/ticker_info.json
    mipc             \* "files" | "done"

fnVars == <<closes, closes_ref, rs_out, quarter_perfs, strength_out, rs_short, fpc>>
envVars == <<store_ok, lib, meta_ok, mtype>>
runVars == <<rpc, tickers, idx, insufficient_tickers, rs_results, df_stocks, files,
            rating_args>>
mergeVars == <<shards, dest, mpc, mrun, first_dest, src_dirs, si, symbols, yi,
               total_merged, shard_merged, all_symbols, duplicate_symbols,
               failed_symbols, merged_log, merge_summary>>
batchVars == <<plan, quotes, bpc, batch_calls, all_prices, all_failed_tickers, part_file,
              ticker_price>>
infoVars == <<force_refresh, answers, fs_part, fs_unresolved, fs_summary, written_by,
              ipc, existing, todo, ibatch, attempt, all_unresolved, updated_total,
              last_return, passes, unresolved_final>>
pctVars == <<col_values, col_percentile, cpc>>
partVars == <<plist, ptotal, pscheme, pslices>>
updVars == <<u_ticker_info, u_failed_symbols, u_i, u_results, u_k, u_raised, u_files, upc>>
miVars == <<mi_files, ticker_files, mi_pos, merged, mi_out, mipc>>
vars == <<fnVars, envVars, runVars, mergeVars, batchVars, infoVars, pctVars, partVars, updVars, miVars>>

-----------------------------------------------------------------------------
(* Exact rational arithmetic standing for float arithmetic.                 *)

Abs(x) == IF x < 0 THEN -x ELSE x

RECURSIVE Gcd(_, _)
Gcd(a, b) == IF b = 0 THEN a ELSE Gcd(b, a % b)

NaN == [n |-> 0, d |-> 0]
isnan(x) == x.d = 0

Rat(a, b) ==
    LET s == IF b < 0 THEN -1 ELSE 1
        g == Gcd(Abs(a), Abs(b))
    IN  [n |-> (s * a) \div g, d |-> (s * b) \div g]

Int2Rat(i) == [n |-> i, d |-> 1]
RAdd(x, y) == Rat(x.n * y.d + y.n * x.d, x.d * y.d)
RMul(x, y) == Rat(x.n * y.n, x.d * y.d)
RDiv(x, y) == Rat(x.n * y.d, x.d * y.n)
RLeq(x, y) == x.n * y.d <= y.n * x.d
RLt(x, y)  == x.n * y.d < y.n * x.d

\* round(x): nearest integer, ties to the even one (x >= 0).
RoundInt(x) ==
    LET q  == x.n \div x.d
        r2 == 2 * (x.n % x.d)
    IN  IF r2 > x.d THEN q + 1
        ELSE IF r2 < x.d THEN q
        ELSE IF q % 2 = 0 THEN q ELSE q + 1

\* round(x, 2): nearest multiple of 1/100, ties to the even hundredth.
Round2(x) == Rat(RoundInt([n |-> x.n * 100, d |-> x.d]), 100)

Min(a, b) == IF a < b THEN a ELSE b
Max(a, b) == IF a > b THEN a ELSE b

-----------------------------------------------------------------------------
(* Close series.  A series is identified by its length and its shape; the   *)
(* shape gives the close of each trailing quarter (most recent first).      *)

QuarterDays == 63
RSCap == 590

Shapes == { <<2, 2, 2, 2, 2>>,       \* flat
            <<3, 2, 2, 2, 2>>,       \* +50% in the last quarter
            <<6, 4, 3, 2, 1>>,       \* steady rise
            <<1, 2, 3, 4, 6>>,       \* steady fall
            <<12, 1, 1, 1, 1>> }     \* spike

ExtraBars == 1
Lengths == {0, 1, 2, 5, 19, 20, 22, 64, 127, 4 * QuarterDays + ExtraBars}

SeriesIds == [len : Lengths, shape : Shapes]

\* The closes of series id, oldest first.
Closes(id) ==
    [i \in 1..id.len |-> id.shape[Min((id.len - i) \div QuarterDays, 4) + 1]]

-----------------------------------------------------------------------------
(* calculate_rs_from_db.py: quarters_perf, strength, relative_strength      *)

\* Product of (pct_change + 1) over s[lo..hi], i.e. of s[i] / s[i-1]: the last
\* element of (pct_change + 1).cumprod().  The product is split in halves so
\* that the evaluation depth stays logarithmic in the length of the series.
RECURSIVE CumProd(_, _, _)
CumProd(s, lo, hi) ==
    IF lo = hi THEN Rat(s[lo], s[lo - 1])
    ELSE LET mid == (lo + hi) \div 2
         IN  RMul(CumProd(s, lo, mid), CumProd(s, mid + 1, hi))

quarters_perf_noplaceholder(c, n) ==
    LET days      == n * QuarterDays
        slice_len == Min(Len(c), days + 1)
        available == SubSeq(c, Len(c) - slice_len + 1, Len(c))
    IN  IF Len(available) < 2 THEN NaN
        ELSE RAdd(CumProd(available, 2, Len(available)), Int2Rat(-1))

\* lines 20-27
quarters_perf(c, n) ==
    LET days      == n * QuarterDays
        slice_len == Min(Len(c), days + 1)
        available == SubSeq(c, Len(c) - slice_len + 1, Len(c))
    IN  IF Len(available) < 2
        THEN (IF Len(available) = 1 THEN Int2Rat(0) ELSE NaN)
        ELSE RAdd(CumProd(available, 2, Len(available)), Int2Rat(-1))

Weights == << Rat(2, 5), Rat(1, 5), Rat(1, 5), Rat(1, 5) >>

RECURSIVE RSum(_)
RSum(s) == IF s = <<>> THEN Int2Rat(0) ELSE RAdd(Head(s), RSum(Tail(s)))

strength_equal_weights(c) ==
    LET perfs       == [i \in 1..4 |-> quarters_perf(c, i)]
        valid_perfs == SelectSeq(perfs, LAMBDA p : ~isnan(p))
        k           == Len(valid_perfs)
    IN  IF k = 0 THEN NaN
        ELSE RDiv(RSum(valid_perfs), Int2Rat(k))

\* lines 30-38
strength(c) ==
    LET perfs       == [i \in 1..4 |-> quarters_perf(c, i)]
        valid_perfs == SelectSeq(perfs, LAMBDA p : ~isnan(p))
        k           == Len(valid_perfs)
        w0          == SubSeq(Weights, 1, k)
        total       == RSum(w0)
        w           == [i \in 1..k |-> RDiv(w0[i], total)]
    IN  IF k = 0 THEN NaN
        ELSE RSum([i \in 1..k |-> RMul(w[i], valid_perfs[i])])

relative_strength_nocap(c, cref) ==
    LET rs_stock == strength(c)
        rs_ref   == strength(cref)
    IN  IF isnan(rs_stock) \/ isnan(rs_ref) THEN NaN
        ELSE Round2(RMul(RDiv(RAdd(Int2Rat(1), rs_stock),
                              RAdd(Int2Rat(1), rs_ref)), Int2Rat(100)))

relative_strength(c, cref) ==
    LET rs_stock == strength(c)
        rs_ref   == strength(cref)
        rs       == RMul(RDiv(RAdd(Int2Rat(1), rs_stock),
                              RAdd(Int2Rat(1), rs_ref)), Int2Rat(100))
    IN  IF isnan(rs_stock) \/ isnan(rs_ref) THEN NaN
        ELSE IF RLeq(rs, Int2Rat(RSCap)) THEN Round2(rs) ELSE NaN

short_relative_strength(c, cref, days) ==
    IF Len(c) < days + 1 \/ Len(cref) < days + 1 THEN NaN
    ELSE LET stock_ret == RAdd(Rat(c[Len(c)], c[Len(c) - days + 1]), Int2Rat(-1))
             ref_ret   == RAdd(Rat(cref[Len(cref)], cref[Len(cref) - days + 1]), Int2Rat(-1))
             rs        == RMul(RDiv(RAdd(Int2Rat(1), stock_ret),
                                    RAdd(Int2Rat(1), ref_ret)), Int2Rat(100))
         IN  IF RLeq(rs, Int2Rat(RSCap)) THEN Round2(rs) ELSE NaN

\* the windows of the short-horizon scores (lines 241-243)
ShortDays == <<21, 63, 126>>

\* the functions applied to the chosen pair of series
FnApply ==
    /\ fpc = "init"
    /\ rs_out' = relative_strength(Closes(closes), Closes(closes_ref))
    /\ quarter_perfs' = [n \in 1..4 |-> quarters_perf(Closes(closes), n)]
    /\ strength_out' = strength(Closes(closes))
    /\ rs_short' = [k \in 1..3 |->
           short_relative_strength(Closes(closes), Closes(closes_ref), ShortDays[k])]
    /\ fpc' = "done"
    /\ UNCHANGED <<closes, closes_ref>>
    /\ UNCHANGED <<envVars, runVars, mergeVars, batchVars, infoVars, pctVars, partVars, updVars, miVars>>

-----------------------------------------------------------------------------
(* The RS run: main of calculate_rs_from_db.py.                             *)

reference_ticker == "SPY"
Tickers == {"AAA", "BBB", "CCC"}
Symbols == Tickers \cup {reference_ticker}
\* the order in which lib.list_symbols() lists the symbols that are present
SymbolOrder == <<"AAA", "BBB", "SPY", "CCC">>

MinRefBars == 20
MinIpoBars == 20

FlatShape  == <<2, 2, 2, 2, 2>>
UpShape    == <<3, 2, 2, 2, 2>>
SpikeShape == <<12, 1, 1, 1, 1>>
FullLen    == 4 * QuarterDays + ExtraBars

\* An entry of the store: absent, a series that cannot be read (lib.read
\* raises), a series without the close column, or a well-formed series.
Entry(kind, len, shape) == [kind |-> kind, id |-> [len |-> len, shape |-> shape]]
Absent == Entry("absent", 0, FlatShape)

TickerEntries ==
    { Absent,
      Entry("unreadable", 0, FlatShape),
      Entry("nocols", 5, FlatShape),
      Entry("ok", 1, FlatShape),
      Entry("ok", 5, UpShape),
      Entry("ok", 64, FlatShape),
      Entry("ok", FullLen, FlatShape),
      Entry("ok", FullLen, UpShape),
      Entry("ok", FullLen, SpikeShape) }

RefEntries ==
    { Absent,
      Entry("unreadable", 0, FlatShape),
      Entry("ok", MinRefBars - 1, FlatShape),
      Entry("ok", MinRefBars, FlatShape),
      Entry("ok", FullLen, FlatShape) }

SecurityTypes == {"Stock", "ETF"}

\* The four raw scores of one ticker (lines 240-243).
Scores(c, cref) ==
    << relative_strength(c, cref),
       short_relative_strength(c, cref, 21),
       short_relative_strength(c, cref, 63),
       short_relative_strength(c, cref, 126) >>

\* Scores, evaluated once for every pair of series of the model.
ScoreTable ==
    [e \in {x \in TickerEntries : x.kind = "ok"},
     r \in {x \in RefEntries : x.kind = "ok"} |-> Scores(Closes(e.id), Closes(r.id))]

NaNRow(t) == [ticker |-> t, rs |-> <<NaN, NaN, NaN, NaN>>]

\* --- percentiles (lines 260-266) ---
RankPctAll(col, i) ==
    LET valid == {j \in 1..Len(col) : ~isnan(col[j])}
        below == {j \in valid : RLt(col[j], col[i])}
    IN  Rat(1 + Cardinality(below), Len(col))

\* valid_values.rank(pct=True, method='min'): the minimum rank of the value
\* among the defined values of the column, divided by their number.
RankPctMin(col, i) ==
    LET valid == {j \in 1..Len(col) : ~isnan(col[j])}
        below == {j \in valid : RLt(col[j], col[i])}
    IN  Rat(1 + Cardinality(below), Cardinality(valid))

\* --- float64 arithmetic of rank(pct=True) * 99 (line 264) ---
\* A float is a significand of MantissaBits bits, held as a leading digit
\* and digits of LimbBits bits each, and the number z of halvings:
\* its value is sig * 2^-(MantissaBits - 1) * 2^-z.
MantissaBits == 53
MaxCol == 11
Limb == 2^13
LowDigits == (MantissaBits - 1) \div 13

RECURSIVE Scaled(_, _, _)
Scaled(r, den, z) ==
    IF r >= den THEN [num |-> r, z |-> z] ELSE Scaled(2 * r, den, z + 1)

RECURSIVE LongDiv(_, _, _)
LongDiv(rem, den, k) ==
    IF k = 0 THEN [digits |-> <<>>, rem |-> rem]
    ELSE LET rest == LongDiv((rem * Limb) % den, den, k - 1)
         IN  [digits |-> <<(rem * Limb) \div den>> \o rest.digits, rem |-> rest.rem]

\* the digits of l * k + c
RECURSIVE MulAdd(_, _, _)
MulAdd(l, k, c) ==
    IF Len(l) = 1 THEN <<l[1] * k + c>>
    ELSE LET t == l[Len(l)] * k + c
         IN  MulAdd(SubSeq(l, 1, Len(l) - 1), k, t \div Limb) \o <<t % Limb>>

RECURSIVE BitLen(_)
BitLen(n) == IF n = 0 THEN 0 ELSE 1 + BitLen(n \div 2)

\* r / den for 0 < r <= den, rounded to the nearest float (ties to even)
FloatDiv(r, den) ==
    LET sc   == Scaled(r, den, 0)
        ld   == LongDiv(sc.num - den, den, LowDigits)
        sig0 == <<1>> \o ld.digits
        up   == 2 * ld.rem > den \/ (2 * ld.rem = den /\ sig0[Len(sig0)] % 2 = 1)
    IN  [sig |-> MulAdd(sig0, 1, IF up THEN 1 ELSE 0), z |-> sc.z]

\* f * k for a small integer k, rounded to the nearest float (ties to even)
FloatMul(f, k) ==
    LET prod == MulAdd(f.sig, k, 0)
        s    == BitLen(prod[1]) - 1
        last == prod[Len(prod)]
        low  == last % (2^s)
        up   == 2 * low > 2^s \/ (2 * low = 2^s /\ (last \div (2^s)) % 2 = 1)
        kept == [prod EXCEPT ![Len(prod)] = last - low]
    IN  [sig |-> MulAdd(kept, 1, IF up THEN 2^s ELSE 0), z |-> f.z]

\* astype(int) of a non-negative float
AsInt(f) == f.sig[1] \div (2^f.z)

\* (rank / count * 99).astype(int), for every rank and count of the model
PctOfRank == [count \in 1..MaxCol |->
                 [rank \in 1..count |-> AsInt(FloatMul(FloatDiv(rank, count), 99))]]

\* the percentile of the rank fraction q = rank / count
Pct99(q) ==
    PctOfRank[q.d][q.n]

PercentileColZero(col) ==
    [i \in 1..Len(col) |->
        IF isnan(col[i]) THEN Int2Rat(0)
        ELSE Int2Rat(Pct99(RankPctMin(col, i)))]

PercentileCol(col) ==
    [i \in 1..Len(col) |->
        IF isnan(col[i]) THEN NaN
        ELSE Int2Rat(Pct99(RankPctMin(col, i)))]

\* lines 261-266 applied to one column
PctApply ==
    /\ cpc = "init"
    /\ col_percentile' = PercentileCol(col_values)
    /\ cpc' = "done"
    /\ UNCHANGED col_values
    /\ UNCHANGED <<fnVars, envVars, runVars, mergeVars, batchVars, infoVars, partVars, updVars, miVars>>

-----------------------------------------------------------------------------
(* The partitions of a ticker list: partition_tickers of                    *)
(* build_ticker_price.py and the slices of build_ticker_info.py.            *)

MaxList == 6
MaxParts == 4

\* math.ceil(a / b)
Ceil(a, b) == (a + b - 1) \div b

\* seq[start:end] of Python, for start, end >= 0
slice(seq, start, end) ==
    SubSeq(seq, Min(start, Len(seq)) + 1, Min(end, Len(seq)))

partition_tickers_even(tlist, part_index, total) ==
    LET per_part == Len(tlist) \div total
        start    == part_index * per_part
    IN  slice(tlist, start, start + per_part)

\* build_ticker_price.py, lines 60-64
partition_tickers(tlist, part_index, total) ==
    LET per_part == Len(tlist) \div total
        start    == part_index * per_part
        end      == IF part_index < total - 1 THEN start + per_part ELSE Len(tlist)
    IN  slice(tlist, start, end)

\* build_ticker_info.py, lines 246-249 and 322-325
ceil_slice(tlist, part_index, total) ==
    LET per_part == Ceil(Len(tlist), total)
        start    == part_index * per_part
        end      == Min(start + per_part, Len(tlist))
    IN  slice(tlist, start, end)

\* the job of one part of the price build takes its slice
PricePart(i) ==
    /\ pscheme = "price"
    /\ i \notin DOMAIN pslices
    /\ pslices' = [j \in DOMAIN pslices \cup {i} |->
                      IF j = i THEN partition_tickers(plist, i, ptotal) ELSE pslices[j]]
    /\ UNCHANGED <<plist, ptotal, pscheme>>
    /\ UNCHANGED <<fnVars, envVars, runVars, mergeVars, batchVars, infoVars, pctVars, updVars, miVars>>

\* the job of one part of the metadata build takes its slice
InfoPart(i) ==
    /\ pscheme = "info"
    /\ i \notin DOMAIN pslices
    /\ pslices' = [j \in DOMAIN pslices \cup {i} |->
                      IF j = i THEN ceil_slice(plist, i, ptotal) ELSE pslices[j]]
    /\ UNCHANGED <<plist, ptotal, pscheme>>
    /\ UNCHANGED <<fnVars, envVars, runVars, mergeVars, batchVars, infoVars, pctVars, updVars, miVars>>

-----------------------------------------------------------------------------
(* process_nasdaq_file of update_stocks.py.                                 *)

\* line 70: the symbols of the Nasdaq listing, in order
u_symbols == <<"U1", "U2", "U3">>
\* line 27, scaled down
BATCH_SIZE == 2

\* lines 43-59: process_symbol returns {symbol: {...}}, or None when the
\* fetch raised
Result(sym) == [none |-> FALSE, keys |-> <<sym>>]
None == [none |-> TRUE, keys |-> <<>>]
\* the truth value of a result: None and the empty dict are false
Truthy(result) == ~result.none /\ result.keys # <<>>

\* lines 91-97: the next batch is fetched; any of its symbols may fail
UpdBatch ==
    /\ upc = "batch"
    /\ u_i < Len(u_symbols)
    /\ LET batch_symbols == slice(u_symbols, u_i, u_i + BATCH_SIZE)
       IN  \E raised \in SUBSET {batch_symbols[k] : k \in 1..Len(batch_symbols)} :
               /\ u_results' = [k \in 1..Len(batch_symbols) |->
                                   IF batch_symbols[k] \in raised THEN None
                                   ELSE Result(batch_symbols[k])]
               /\ u_raised' = u_raised \cup raised
    /\ u_k' = 0
    /\ upc' = "results"
    /\ UNCHANGED <<u_ticker_info, u_failed_symbols, u_i, u_files>>
    /\ UNCHANGED <<fnVars, envVars, runVars, mergeVars, batchVars, infoVars, pctVars, partVars, miVars>>

\* lines 99-107: one result of the batch
UpdResult ==
    /\ upc = "results"
    /\ u_k < Len(u_results)
    /\ LET result == u_results[u_k + 1]
           failed_symbol == IF Truthy(result) THEN result.keys[1] ELSE ""
       IN  IF Truthy(result)
           THEN /\ u_ticker_info' = u_ticker_info \cup {result.keys[1]}
                /\ UNCHANGED u_failed_symbols
           ELSE /\ u_failed_symbols' = IF failed_symbol # ""
                                         THEN Append(u_failed_symbols, failed_symbol)
                                         ELSE u_failed_symbols
                /\ UNCHANGED u_ticker_info
    /\ u_k' = u_k + 1
    /\ UNCHANGED <<u_i, u_results, u_raised, u_files, upc>>
    /\ UNCHANGED <<fnVars, envVars, runVars, mergeVars, batchVars, infoVars, pctVars, partVars, miVars>>

\* line 91: the batch is done: on to the next one, or out of the loop
UpdNextBatch ==
    /\ upc = "results"
    /\ u_k = Len(u_results)
    /\ u_i' = u_i + BATCH_SIZE
    /\ upc' = IF u_i + BATCH_SIZE < Len(u_symbols) THEN "batch" ELSE "save"
    /\ UNCHANGED <<u_ticker_info, u_failed_symbols, u_results, u_k, u_raised, u_files>>
    /\ UNCHANGED <<fnVars, envVars, runVars, mergeVars, batchVars, infoVars, pctVars, partVars, miVars>>

\* lines 111-123: ticker_info.json and failed_symbols.json are written
UpdSave ==
    /\ upc = "save"
    /\ u_files' = [f \in {"ticker_info.json", "failed_symbols.json"} |->
                      IF f = "ticker_info.json" THEN u_ticker_info
                      ELSE u_failed_symbols]
    /\ upc' = "done"
    /\ UNCHANGED <<u_ticker_info, u_failed_symbols, u_i, u_results, u_k, u_raised>>
    /\ UNCHANGED <<fnVars, envVars, runVars, mergeVars, batchVars, infoVars, pctVars, partVars, miVars>>

\* --- metadata: sector and industry of each ticker (fixed in this model) ---
MetaIndustry(t) == IF t = "CCC" THEN "Banks" ELSE "Software"
MetaSector(t) == IF t = "CCC" THEN "Financial" ELSE "Technology"
\* groupby lists the groups in the order of their keys
IndustryOrder == <<"Banks", "ETF", "Software">>

\* sort_values: rows ordered so that a row comes before every row it is
\* Before; rows that are not ordered by Before keep their relative order.
SortStable(rows, Before(_, _)) ==
    LET pos(i) == 1 + Cardinality({j \in 1..Len(rows) :
                        \/ Before(rows[j], rows[i])
                        \/ (~Before(rows[i], rows[j]) /\ j < i)})
    IN  [p \in 1..Len(rows) |-> rows[CHOOSE i \in 1..Len(rows) : pos(i) = p]]

\* sort_values("RS", ascending=False, na_position="last")
RSBefore(a, b) ==
    \/ ~isnan(a.rs[1]) /\ isnan(b.rs[1])
    \/ ~isnan(a.rs[1]) /\ ~isnan(b.rs[1]) /\ RLt(b.rs[1], a.rs[1])

Present(sym) == lib[sym].kind # "absent"
NumBars(sym) == lib[sym].id.len
ReadRaises(sym) == lib[sym].kind = "unreadable"
\* data["close"] raises KeyError
CloseMissing(sym) == lib[sym].kind = "nocols"

\* lines 140-146
Load ==
    /\ rpc = "load"
    /\ IF store_ok
       THEN /\ tickers' = SelectSeq(SymbolOrder, Present)
            /\ rpc' = "check_ref"
       ELSE /\ rpc' = "exit1"
            /\ UNCHANGED tickers
    /\ UNCHANGED <<idx, insufficient_tickers, rs_results, df_stocks, files, rating_args>>
    /\ UNCHANGED <<envVars, fnVars, mergeVars, batchVars, infoVars, pctVars, partVars, updVars, miVars>>

InList(seq, x) == \E i \in 1..Len(seq) : seq[i] = x

\* lines 148-151
CheckRef ==
    /\ rpc = "check_ref"
    /\ rpc' = IF InList(tickers, reference_ticker) THEN "read_ref" ELSE "exit1"
    /\ UNCHANGED <<tickers, idx, insufficient_tickers, rs_results, df_stocks, files, rating_args>>
    /\ UNCHANGED <<envVars, fnVars, mergeVars, batchVars, infoVars, pctVars, partVars, updVars, miVars>>

ReadRefNoMinimum ==
    /\ rpc = "read_ref"
    /\ rpc' = IF ReadRaises(reference_ticker) \/ CloseMissing(reference_ticker)
              THEN "crash" ELSE "precheck"
    /\ UNCHANGED <<tickers, idx, insufficient_tickers, rs_results, df_stocks, files, rating_args>>
    /\ UNCHANGED <<envVars, fnVars, mergeVars, batchVars, infoVars, pctVars, partVars, updVars, miVars>>

\* lines 154-159: the read is not guarded, an exception ends the run
ReadRef ==
    /\ rpc = "read_ref"
    /\ rpc' = IF ReadRaises(reference_ticker) \/ CloseMissing(reference_ticker)
              THEN "crash"
              ELSE IF NumBars(reference_ticker) < MinRefBars THEN "exit1"
              ELSE "precheck"
    /\ UNCHANGED <<tickers, idx, insufficient_tickers, rs_results, df_stocks, files, rating_args>>
    /\ UNCHANGED <<envVars, fnVars, mergeVars, batchVars, infoVars, pctVars, partVars, updVars, miVars>>

\* lines 161-173
Precheck ==
    /\ rpc = "precheck"
    /\ insufficient_tickers' =
           SelectSeq(tickers, LAMBDA t :
               /\ t # reference_ticker
               /\ (ReadRaises(t) \/ CloseMissing(t) \/ NumBars(t) < 1))
    /\ rpc' = "loop"
    /\ idx' = 1
    /\ UNCHANGED <<tickers, rs_results, df_stocks, files, rating_args>>
    /\ UNCHANGED <<envVars, fnVars, mergeVars, batchVars, infoVars, pctVars, partVars, updVars, miVars>>

\* lines 231-233
LoopSkipRef ==
    /\ rpc = "loop"
    /\ idx <= Len(tickers)
    /\ tickers[idx] = reference_ticker
    /\ idx' = idx + 1
    /\ UNCHANGED <<rpc, tickers, insufficient_tickers, rs_results, df_stocks, files, rating_args>>
    /\ UNCHANGED <<envVars, fnVars, mergeVars, batchVars, infoVars, pctVars, partVars, updVars, miVars>>

\* lines 234-246
LoopScore ==
    /\ rpc = "loop"
    /\ idx <= Len(tickers)
    /\ tickers[idx] # reference_ticker
    /\ ~ReadRaises(tickers[idx])
    /\ ~CloseMissing(tickers[idx])
    /\ LET t == tickers[idx]
       IN  rs_results' = Append(rs_results,
               IF NumBars(t) < 2 THEN NaNRow(t)
               ELSE [ticker |-> t, rs |-> ScoreTable[lib[t], lib[reference_ticker]]])
    /\ idx' = idx + 1
    /\ UNCHANGED <<rpc, tickers, insufficient_tickers, df_stocks, files, rating_args>>
    /\ UNCHANGED <<envVars, fnVars, mergeVars, batchVars, infoVars, pctVars, partVars, updVars, miVars>>

\* lines 247-249: the exception of the read or of the processing is caught
LoopExcept ==
    /\ rpc = "loop"
    /\ idx <= Len(tickers)
    /\ tickers[idx] # reference_ticker
    /\ ReadRaises(tickers[idx]) \/ CloseMissing(tickers[idx])
    /\ rs_results' = Append(rs_results, NaNRow(tickers[idx]))
    /\ idx' = idx + 1
    /\ UNCHANGED <<rpc, tickers, insufficient_tickers, df_stocks, files, rating_args>>
    /\ UNCHANGED <<envVars, fnVars, mergeVars, batchVars, infoVars, pctVars, partVars, updVars, miVars>>

NoPct == <<>>

\* lines 251-258
Frame ==
    /\ rpc = "loop"
    /\ idx > Len(tickers)
    /\ IF rs_results = <<>>
       THEN /\ rpc' = "exit1"
            /\ UNCHANGED df_stocks
       ELSE /\ rpc' = "percentiles"
            /\ df_stocks' =
                   [i \in 1..Len(rs_results) |->
                       [ticker   |-> rs_results[i].ticker,
                        rs       |-> rs_results[i].rs,
                        pct      |-> NoPct,
                        ipo      |-> "",
                        type     |-> IF meta_ok THEN mtype[rs_results[i].ticker] ELSE "",
                        industry |-> IF meta_ok THEN MetaIndustry(rs_results[i].ticker) ELSE "",
                        sector   |-> IF meta_ok THEN MetaSector(rs_results[i].ticker) ELSE ""]]
    /\ UNCHANGED <<tickers, idx, insufficient_tickers, rs_results, files, rating_args>>
    /\ UNCHANGED <<envVars, fnVars, mergeVars, batchVars, infoVars, pctVars, partVars, updVars, miVars>>

\* lines 260-269
Percentiles ==
    /\ rpc = "percentiles"
    /\ LET col(k)  == [i \in 1..Len(df_stocks) |-> df_stocks[i].rs[k]]
           ranked  == [i \in 1..Len(df_stocks) |->
                          [df_stocks[i] EXCEPT !.pct =
                              [k \in 1..4 |-> PercentileCol(col(k))[i]]]]
       IN  df_stocks' = SortStable(ranked, RSBefore)
    /\ rpc' = "ipo"
    /\ UNCHANGED <<tickers, idx, insufficient_tickers, rs_results, files, rating_args>>
    /\ UNCHANGED <<envVars, fnVars, mergeVars, batchVars, infoVars, pctVars, partVars, updVars, miVars>>

\* line 271-273 without metadata: df_stocks has no Type column, row["Type"]
\* raises KeyError
IpoNoType ==
    /\ rpc = "ipo"
    /\ ~meta_ok
    /\ rpc' = "crash"
    /\ UNCHANGED <<tickers, idx, insufficient_tickers, rs_results, df_stocks, files, rating_args>>
    /\ UNCHANGED <<envVars, fnVars, mergeVars, batchVars, infoVars, pctVars, partVars, updVars, miVars>>

\* lines 271-273: lib.read of a row of type Stock raises, outside any try
IpoReadRaises ==
    /\ rpc = "ipo"
    /\ meta_ok
    /\ \E i \in 1..Len(df_stocks) :
           df_stocks[i].type = "Stock" /\ ReadRaises(df_stocks[i].ticker)
    /\ rpc' = "crash"
    /\ UNCHANGED <<tickers, idx, insufficient_tickers, rs_results, df_stocks, files, rating_args>>
    /\ UNCHANGED <<envVars, fnVars, mergeVars, batchVars, infoVars, pctVars, partVars, updVars, miVars>>

IpoSectorOnly ==
    /\ rpc = "ipo"
    /\ meta_ok
    /\ \A i \in 1..Len(df_stocks) :
           ~(df_stocks[i].type = "Stock" /\ ReadRaises(df_stocks[i].ticker))
    /\ df_stocks' =
           [i \in 1..Len(df_stocks) |->
               LET row == df_stocks[i]
               IN  [row EXCEPT
                      !.ipo = IF row.type = "Stock" /\ NumBars(row.ticker) < MinIpoBars
                              THEN "Yes" ELSE "No",
                      !.sector   = IF row.type = "ETF" THEN "ETF" ELSE row.sector]]
    /\ rpc' = "write_stocks"
    /\ UNCHANGED <<tickers, idx, insufficient_tickers, rs_results, files, rating_args>>
    /\ UNCHANGED <<envVars, fnVars, mergeVars, batchVars, infoVars, pctVars, partVars, updVars, miVars>>

\* lines 271-276
Ipo ==
    /\ rpc = "ipo"
    /\ meta_ok
    /\ \A i \in 1..Len(df_stocks) :
           ~(df_stocks[i].type = "Stock" /\ ReadRaises(df_stocks[i].ticker))
    /\ df_stocks' =
           [i \in 1..Len(df_stocks) |->
               LET row == df_stocks[i]
               IN  [row EXCEPT
                      !.ipo = IF row.type = "Stock" /\ NumBars(row.ticker) < MinIpoBars
                              THEN "Yes" ELSE "No",
                      !.industry = IF row.type = "ETF" THEN "ETF" ELSE row.industry,
                      !.sector   = IF row.type = "ETF" THEN "ETF" ELSE row.sector]]
    /\ rpc' = "write_stocks"
    /\ UNCHANGED <<tickers, idx, insufficient_tickers, rs_results, files, rating_args>>
    /\ UNCHANGED <<envVars, fnVars, mergeVars, batchVars, infoVars, pctVars, partVars, updVars, miVars>>

WriteFile(name, content) ==
    [f \in DOMAIN files \cup {name} |-> IF f = name THEN content ELSE files[f]]

\* lines 278-282
WriteStocks ==
    /\ rpc = "write_stocks"
    /\ files' = WriteFile("rs_stocks.csv",
           [i \in 1..Len(df_stocks) |->
               [rank     |-> i,
                ticker   |-> df_stocks[i].ticker,
                sector   |-> df_stocks[i].sector,
                industry |-> df_stocks[i].industry,
                pct      |-> df_stocks[i].pct,
                ipo      |-> df_stocks[i].ipo]])
    /\ rpc' = "industries"
    /\ UNCHANGED <<tickers, idx, insufficient_tickers, rs_results, df_stocks, rating_args>>
    /\ UNCHANGED <<envVars, fnVars, mergeVars, batchVars, infoVars, pctVars, partVars, updVars, miVars>>

MeanPctAllMembers(vals) ==
    LET valid == SelectSeq(vals, LAMBDA v : ~isnan(v))
    IN  IF valid = <<>> THEN 0
        ELSE RoundInt(RDiv(RSum(valid), Int2Rat(Len(vals))))

\* mean of the defined values of a column of percentiles, then
\* fillna(0).round().astype(int)
MeanPct(vals) ==
    LET valid == SelectSeq(vals, LAMBDA v : ~isnan(v))
    IN  IF valid = <<>> THEN 0
        ELSE RoundInt(RDiv(RSum(valid), Int2Rat(Len(valid))))

\* lines 284-302.  The member list is kept in table order: the order by
\* market capitalisation is not part of this model.
IndustryTable ==
    LET members(g) == SelectSeq(df_stocks, LAMBDA r : r.industry = g)
        groups     == SelectSeq(IndustryOrder, LAMBDA g : members(g) # <<>>)
        agg == [j \in 1..Len(groups) |->
                   LET m == members(groups[j])
                   IN  [industry |-> groups[j],
                        sector   |-> m[1].sector,
                        vals     |-> [k \in 1..4 |->
                                         MeanPct([i \in 1..Len(m) |-> m[i].pct[k]])],
                        ticker   |-> [i \in 1..Len(m) |-> m[i].ticker]]]
        sorted == SortStable(agg, LAMBDA a, b : a.vals[1] > b.vals[1])
    IN  [j \in 1..Len(sorted) |->
            [rank |-> j, industry |-> sorted[j].industry, sector |-> sorted[j].sector,
             vals |-> sorted[j].vals, ticker |-> sorted[j].ticker]]

Industries ==
    /\ rpc = "industries"
    /\ files' = WriteFile("rs_industries.csv", IndustryTable)
    /\ rpc' = "rating"
    /\ UNCHANGED <<tickers, idx, insufficient_tickers, rs_results, df_stocks, rating_args>>
    /\ UNCHANGED <<envVars, fnVars, mergeVars, batchVars, infoVars, pctVars, partVars, updVars, miVars>>

\* lines 77-79: the default percentile thresholds
percentile_values == <<98, 89, 69, 49, 29, 9, 1>>

\* lines 390-393: the thresholds given on the command line: the default, a
\* list out of order, one threshold twice
PercentileArgs == {percentile_values, <<9, 98, 49>>, <<29, 29>>}

\* Calendar days are counted from 2024-12-01 (day 1, a Sunday): the model's
\* last bar of the reference ticker is of 2025-01-03.
LatestDates == {34}
Date(k) == IF k <= 31 THEN [y |-> 2024, m |-> 12, d |-> k]
                      ELSE [y |-> 2025, m |-> 1, d |-> k - 31]

Digits == <<"0", "1", "2", "3", "4", "5", "6", "7", "8", "9">>
Digit(n) == Digits[n + 1]
\* strftime('%Y%m%dT'): four digits of the year, two of the month, two of
\* the day, then the letter T
strftime(k) ==
    LET t == Date(k)
    IN  <<Digit(t.y \div 1000), Digit((t.y \div 100) % 10), Digit((t.y \div 10) % 10),
          Digit(t.y % 10), Digit(t.m \div 10), Digit(t.m % 10),
          Digit(t.d \div 10), Digit(t.d % 10), "T">>

\* lines 86-96: what the NYSE calendar gives: it is not installed or it
\* raises, it lists the sessions of the range (Monday to Friday without
\* 25 December and 1 January), or it lists only the sessions of the last
\* days of the range
CalendarOutcomes == {"unavailable", "sessions", "few"}
IsSession(k) == k % 7 \notin {0, 1} /\ k \notin {25, 32}
RECURSIVE DaysFrom(_, _)
DaysFrom(a, b) == IF a > b THEN <<>> ELSE <<a>> \o DaysFrom(a + 1, b)
schedule(cal, start_date, end_date) ==
    SelectSeq(DaysFrom(IF cal = "few" THEN end_date - 5 ELSE start_date, end_date),
              IsSession)

Last(seq, k) == SubSeq(seq, Max(1, Len(seq) - k + 1), Len(seq))

\* lines 85-100
rating_dates(cal, latest_date) ==
    LET valid_dates == SelectSeq(schedule(cal, latest_date - 20, latest_date + 2),
                                 LAMBDA d : d <= latest_date)
        l5    == Last(valid_dates, 5)
        dates == IF cal = "unavailable" THEN <<>>
                 ELSE [i \in 1..Len(l5) |-> strftime(l5[i])]
    IN  IF Len(dates) < 5 THEN [i \in 1..5 |-> strftime(latest_date - (5 - i))]
        ELSE dates

\* lines 102-113 of generate_tradingview_csv: the threshold of each band
rs_map(pv) ==
    LET valid_rs == SelectSeq([i \in 1..Len(df_stocks) |-> df_stocks[i].rs[1]],
                              LAMBDA v : ~isnan(v))
        total    == Len(valid_rs)
        top_n(p) == Max(1, RoundInt(Rat(total * (100 - p), 100)))
    IN  [p \in {pv[j] : j \in 1..Len(pv)} |->
            IF total = 0 THEN Int2Rat(100)
            ELSE Round2(valid_rs[Min(top_n(p) - 1, total - 1) + 1])]

bands_unsorted(pv) == pv

\* line 117: sorted(percentile_values, reverse=True)
bands(pv) == SortStable(pv, LAMBDA a, b : a > b)

\* lines 115-120: one line "{d},0,1000,0,{rs_val},0" for each band, from the
\* highest down, and each date
rating_lines(pv, dates) ==
    LET ps == bands(pv)
        m  == rs_map(pv)
    IN  [i \in 1..(Len(ps) * Len(dates)) |->
            <<dates[((i - 1) % Len(dates)) + 1], 0, 1000, 0,
              m[ps[((i - 1) \div Len(dates)) + 1]], 0>>]

\* line 304: generate_tradingview_csv
Rating ==
    /\ rpc = "rating"
    /\ \E pv \in PercentileArgs, cal \in CalendarOutcomes, latest_date \in LatestDates :
          /\ rating_args' = [percentile_values |-> pv, calendar |-> cal,
                             latest_date |-> latest_date]
          /\ files' = WriteFile("RSRATING.csv",
                                rating_lines(pv, rating_dates(cal, latest_date)))
    /\ rpc' = "done"
    /\ UNCHANGED <<tickers, idx, insufficient_tickers, rs_results, df_stocks>>
    /\ UNCHANGED <<envVars, fnVars, mergeVars, batchVars, infoVars, pctVars, partVars, updVars, miVars>>

-----------------------------------------------------------------------------
(* The shard merger: merge_arcticdb of merge_arcticdb.py.                   *)

\* arctic-db-1, arctic-db-2, arctic-db-3 under source_root
ShardIds == {1, 2, 3}
MSymbols == {"A", "B"}
\* the order in which list_symbols() lists the symbols of a shard
ListOrder == <<"A", "B">>

\* What a shard holds for a symbol: nothing, a well-formed frame, a frame
\* without the close or the datetime column, a frame whose read raises, or a
\* frame the destination library refuses to write.
SeriesStates == {"absent", "ok", "noclose", "nodatetime", "unreadable", "unwritable"}
FaultyStates == SeriesStates \ {"absent", "ok"}
\* A shard directory: not there, without a prices library, failing to open
\* or list, or usable.
ShardKinds == {"missing", "nolib", "broken", "ok"}

MaxFaults == 2

EmptyShard(kind) == [kind |-> kind, data |-> [y \in MSymbols |-> "absent"]]
ShardValues ==
    {[kind |-> "ok", data |-> d] : d \in [MSymbols -> SeriesStates]}
        \cup {EmptyShard(k) : k \in ShardKinds \ {"ok"}}

Faults(sh) ==
    Cardinality({i \in ShardIds : sh[i].kind \in {"nolib", "broken"}})
    + Cardinality({x \in ShardIds \X MSymbols : sh[x[1]].data[x[2]] \in FaultyStates})

EmptyDest == [y \in MSymbols |-> <<>>]
\* before the summary of lines 77-83 is printed
NoSummary == [partitions |-> 0, unique |-> 0, merged |-> 0, duplicates |-> 0, failed |-> 0]

Columns(st) ==
    CASE st = "noclose"    -> {"datetime", "open"}
      [] st = "nodatetime" -> {"close", "open"}
      [] OTHER             -> {"datetime", "close", "open"}

RequiredColumnsCloseOnly(st) == {"close"} \subseteq Columns(st)

\* line 49
RequiredColumns(st) == {"close", "datetime"} \subseteq Columns(st)

Readable(st) == st # "unreadable"
Writable(st) == st # "unwritable"

Perms(S) ==
    {f \in [1..Cardinality(S) -> S] : \A a, b \in 1..Cardinality(S) : a # b => f[a] # f[b]}

UnsortedDirs(g) == g

\* line 29: sorted(src_dirs)
SortedDirs(g) == SortStable(g, LAMBDA a, b : a < b)

DestAppend(y, frame) == [dest EXCEPT ![y] = @ \o <<frame>>]

\* line 53: dest_lib.write(symbol, df) replaces what the library holds
DestWrite(y, frame) == [dest EXCEPT ![y] = <<frame>>]

\* lines 8-27; glob lists the shard directories in any order
MergeStart ==
    /\ mpc = "start"
    /\ \E g \in Perms({i \in ShardIds : shards[i].kind # "missing"}) :
           IF g = <<>>
           THEN /\ mpc' = "returned"
                /\ UNCHANGED <<src_dirs, si, total_merged, all_symbols,
                               duplicate_symbols, failed_symbols, merged_log>>
           ELSE /\ mpc' = "shard"
                /\ src_dirs' = SortedDirs(g)
                /\ si' = 1
                /\ total_merged' = 0
                /\ all_symbols' = {}
                /\ duplicate_symbols' = {}
                /\ failed_symbols' = <<>>
                /\ merged_log' = {}
    /\ UNCHANGED <<shards, dest, mrun, first_dest, symbols, yi, shard_merged>>
    /\ UNCHANGED merge_summary
    /\ UNCHANGED <<fnVars, envVars, runVars, batchVars, infoVars, pctVars, partVars, updVars, miVars>>

Src == shards[src_dirs[si]]

\* lines 30-34, 61-65: opening the shard raises
ShardBroken ==
    /\ mpc = "shard"
    /\ si <= Len(src_dirs)
    /\ Src.kind = "broken"
    /\ shard_merged' = 0
    /\ failed_symbols' = Append(failed_symbols, <<src_dirs[si], "N/A", "error">>)
    /\ si' = si + 1
    /\ UNCHANGED <<shards, dest, mpc, mrun, first_dest, src_dirs, symbols, yi,
                   total_merged, all_symbols, duplicate_symbols, merged_log>>
    /\ UNCHANGED merge_summary
    /\ UNCHANGED <<fnVars, envVars, runVars, batchVars, infoVars, pctVars, partVars, updVars, miVars>>

\* lines 30-37: no prices library, the shard is skipped
ShardNoLibrary ==
    /\ mpc = "shard"
    /\ si <= Len(src_dirs)
    /\ Src.kind = "nolib"
    /\ shard_merged' = 0
    /\ si' = si + 1
    /\ UNCHANGED <<shards, dest, mpc, mrun, first_dest, src_dirs, symbols, yi,
                   total_merged, all_symbols, duplicate_symbols, failed_symbols,
                   merged_log>>
    /\ UNCHANGED merge_summary
    /\ UNCHANGED <<fnVars, envVars, runVars, batchVars, infoVars, pctVars, partVars, updVars, miVars>>

\* lines 30-41
ShardList ==
    /\ mpc = "shard"
    /\ si <= Len(src_dirs)
    /\ Src.kind = "ok"
    /\ shard_merged' = 0
    /\ symbols' = SelectSeq(ListOrder, LAMBDA y : Src.data[y] # "absent")
    /\ yi' = 1
    /\ mpc' = "symbol"
    /\ UNCHANGED <<shards, dest, mrun, first_dest, src_dirs, si,
                   total_merged, all_symbols, duplicate_symbols, failed_symbols,
                   merged_log>>
    /\ UNCHANGED merge_summary
    /\ UNCHANGED <<fnVars, envVars, runVars, batchVars, infoVars, pctVars, partVars, updVars, miVars>>

Sym == symbols[yi]
SymState == Src.data[Sym]

SeeSymbolAddFirst ==
    /\ all_symbols' = all_symbols \cup {Sym}
    /\ duplicate_symbols' = IF Sym \in all_symbols \cup {Sym}
                            THEN duplicate_symbols \cup {Sym}
                            ELSE duplicate_symbols

\* lines 45-47
SeeSymbol ==
    /\ duplicate_symbols' = IF Sym \in all_symbols
                            THEN duplicate_symbols \cup {Sym}
                            ELSE duplicate_symbols
    /\ all_symbols' = all_symbols \cup {Sym}

\* lines 44-56
SymbolMerged ==
    /\ mpc = "symbol"
    /\ yi <= Len(symbols)
    /\ Readable(SymState) /\ RequiredColumns(SymState) /\ Writable(SymState)
    /\ SeeSymbol
    /\ dest' = DestWrite(Sym, src_dirs[si])
    /\ merged_log' = merged_log \cup {<<src_dirs[si], Sym>>}
    /\ total_merged' = total_merged + 1
    /\ shard_merged' = shard_merged + 1
    /\ yi' = yi + 1
    /\ UNCHANGED <<shards, mpc, mrun, first_dest, src_dirs, si, symbols, failed_symbols>>
    /\ UNCHANGED merge_summary
    /\ UNCHANGED <<fnVars, envVars, runVars, batchVars, infoVars, pctVars, partVars, updVars, miVars>>

\* lines 44-52
SymbolInvalid ==
    /\ mpc = "symbol"
    /\ yi <= Len(symbols)
    /\ Readable(SymState) /\ ~RequiredColumns(SymState)
    /\ SeeSymbol
    /\ failed_symbols' =
           Append(failed_symbols, <<src_dirs[si], Sym, "Missing required columns">>)
    /\ yi' = yi + 1
    /\ UNCHANGED <<shards, dest, mpc, mrun, first_dest, src_dirs, si, symbols,
                   total_merged, shard_merged, merged_log>>
    /\ UNCHANGED merge_summary
    /\ UNCHANGED <<fnVars, envVars, runVars, batchVars, infoVars, pctVars, partVars, updVars, miVars>>

\* the exception of one symbol ends the shard
SymbolExceptEndsShard ==
    /\ mpc = "symbol"
    /\ yi <= Len(symbols)
    /\ \/ ~Readable(SymState)
       \/ RequiredColumns(SymState) /\ ~Writable(SymState)
    /\ SeeSymbol
    /\ failed_symbols' = Append(failed_symbols, <<src_dirs[si], "N/A", "error">>)
    /\ si' = si + 1
    /\ mpc' = "shard"
    /\ UNCHANGED <<shards, dest, mrun, first_dest, src_dirs, symbols, yi,
                   total_merged, shard_merged, merged_log>>
    /\ UNCHANGED merge_summary
    /\ UNCHANGED <<fnVars, envVars, runVars, batchVars, infoVars, pctVars, partVars, updVars, miVars>>

\* lines 44-48, 53, 57-59: the read or the write raises, the handler of the
\* symbol records it
SymbolExcept ==
    /\ mpc = "symbol"
    /\ yi <= Len(symbols)
    /\ \/ ~Readable(SymState)
       \/ RequiredColumns(SymState) /\ ~Writable(SymState)
    /\ SeeSymbol
    /\ failed_symbols' = Append(failed_symbols, <<src_dirs[si], Sym, "error">>)
    /\ yi' = yi + 1
    /\ UNCHANGED <<shards, dest, mpc, mrun, first_dest, src_dirs, si, symbols,
                   total_merged, shard_merged, merged_log>>
    /\ UNCHANGED merge_summary
    /\ UNCHANGED <<fnVars, envVars, runVars, batchVars, infoVars, pctVars, partVars, updVars, miVars>>

\* line 65
ShardDone ==
    /\ mpc = "symbol"
    /\ yi > Len(symbols)
    /\ mpc' = "shard"
    /\ si' = si + 1
    /\ UNCHANGED <<shards, dest, mrun, first_dest, src_dirs, symbols, yi,
                   total_merged, shard_merged, all_symbols, duplicate_symbols,
                   failed_symbols, merged_log>>
    /\ UNCHANGED merge_summary
    /\ UNCHANGED <<fnVars, envVars, runVars, batchVars, infoVars, pctVars, partVars, updVars, miVars>>

\* lines 67-83: the failure log and the summary are written from the counters
Summary ==
    /\ mpc = "shard"
    /\ si > Len(src_dirs)
    /\ mpc' = "done"
    /\ merge_summary' = [partitions |-> Len(src_dirs),
                         unique     |-> Cardinality(all_symbols),
                         merged     |-> total_merged,
                         duplicates |-> Cardinality(duplicate_symbols),
                         failed     |-> Len(failed_symbols)]
    /\ UNCHANGED <<shards, dest, mrun, first_dest, src_dirs, si, symbols, yi,
                   total_merged, shard_merged, all_symbols, duplicate_symbols,
                   failed_symbols, merged_log>>
    /\ UNCHANGED <<fnVars, envVars, runVars, batchVars, infoVars, pctVars, partVars, updVars, miVars>>

\* The script is run again over the same shards, into a fresh destination or
\* into the destination the first merge left.
MergeAgain ==
    /\ mpc = "done"
    /\ mrun = "first"
    /\ first_dest' = dest
    /\ \/ mrun' = "again_fresh" /\ dest' = EmptyDest
       \/ mrun' = "again_same" /\ dest' = dest
    /\ mpc' = "start"
    /\ UNCHANGED <<shards, src_dirs, si, symbols, yi, total_merged, shard_merged,
                   all_symbols, duplicate_symbols, failed_symbols, merged_log>>
    /\ UNCHANGED merge_summary
    /\ UNCHANGED <<fnVars, envVars, runVars, batchVars, infoVars, pctVars, partVars, updVars, miVars>>

-----------------------------------------------------------------------------
(* The price build: process_batch and main of build_ticker_price.py.        *)

MAX_BATCH_RETRIES == 3
PRICE_THRESHOLD == 5

\* the tickers of the part, one batch of them
part_tickers == <<"AAA", "BBB">>
PartSymbols == {part_tickers[k] : k \in 1..Len(part_tickers)}

\* What the provider answers for a symbol once a request gets through: a
\* history frame with a last close, an empty frame, or a frame without the
\* close column; with or without summary details.
Quote(h, c, d) == [hist |-> h, close |-> c, details |-> d]
NoQuote == Quote("empty", 0, FALSE)
GoodQuote == Quote("frame", 10, TRUE)
QuoteKinds ==
    {GoodQuote, Quote("frame", 5, TRUE), Quote("frame", 4, TRUE),
     Quote("frame", 10, FALSE), Quote("noclose", 0, TRUE), NoQuote}

\* A request to the provider gets through, is refused with a rate-limit
\* error (429), or fails otherwise.
Outcomes == {"ok", "429", "err"}

NoFile == [written |-> FALSE, prices |-> {}]

\* lines 103-145: whether the symbol gets an entry in prices
Priced(s, fetched) ==
    /\ s \in fetched
    /\ quotes[s].hist = "frame"
    /\ quotes[s].close >= PRICE_THRESHOLD
    /\ quotes[s].details

\* lines 69-151 of process_batch: the batch request (78-83), on any exception
\* one request per symbol (84-101) of which those in singles get through,
\* then the prices and the failed list (103-151).  The first attempt always
\* returns at line 151: nothing raises out of the inner handlers, so the
\* handler of lines 152-208 and the further attempts are never reached.
process_batch(batch, outcome, singles) ==
    LET fetched == IF outcome = "ok"
                   THEN {batch[k] : k \in 1..Len(batch)}
                   ELSE singles
        prices == {<<batch[k], quotes[batch[k]].close>> :
                       k \in {j \in 1..Len(batch) : Priced(batch[j], fetched)}}
        failed == SelectSeq(batch, LAMBDA s : ~Priced(s, fetched))
    IN [updated |-> Cardinality(prices), failed_tickers |-> failed, prices |-> prices]

\* all_prices.update(prices)
Update(old, new) ==
    {e \in old : \A f \in new : f[1] # e[1]} \cup new

\* lines 233-247: the only batch of the part
FirstPass ==
    /\ bpc = "first"
    /\ \E singles \in SUBSET PartSymbols :
           LET r == process_batch(part_tickers, plan[batch_calls + 1], singles)
           IN /\ all_prices' = Update(all_prices, r.prices)
              /\ all_failed_tickers' = all_failed_tickers \o r.failed_tickers
              /\ bpc' = IF r.failed_tickers # <<>> THEN "retry" ELSE "write"
    /\ batch_calls' = batch_calls + 1
    /\ UNCHANGED <<plan, quotes, part_file, ticker_price>>
    /\ UNCHANGED <<fnVars, envVars, runVars, mergeVars, infoVars, pctVars, partVars, updVars, miVars>>

\* lines 249-262: the failed tickers are put through process_batch once more
RetryPass ==
    /\ bpc = "retry"
    /\ \E singles \in SUBSET PartSymbols :
           LET r == process_batch(all_failed_tickers, plan[batch_calls + 1], singles)
           IN all_prices' = Update(all_prices, r.prices)
    /\ batch_calls' = batch_calls + 1
    /\ bpc' = "write"
    /\ UNCHANGED <<plan, quotes, all_failed_tickers, part_file, ticker_price>>
    /\ UNCHANGED <<fnVars, envVars, runVars, mergeVars, infoVars, pctVars, partVars, updVars, miVars>>

\* lines 264-267
WritePart ==
    /\ bpc = "write"
    /\ part_file' = [written |-> TRUE, prices |-> all_prices]
    /\ bpc' = "done"
    /\ UNCHANGED <<plan, quotes, batch_calls, all_prices, all_failed_tickers, ticker_price>>
    /\ UNCHANGED <<fnVars, envVars, runVars, mergeVars, infoVars, pctVars, partVars, updVars, miVars>>

\* build_ticker_price.py, lines 125-137: the keys of the info dict of every
\* record of prices
written_fields ==
    {"industry", "sector", "type", "Price", "volume", "averageVolume",
     "averageVolume10days", "marketCap", "fiftyTwoWeekLow", "fiftyTwoWeekHigh"}

\* merge_ticker_price.py, line 44
required_fields ==
    {"Price", "DVol", "AvgVol", "AvgVol10", "52WKL", "52WKH", "MCAP",
     "industry", "sector", "type"}

\* merge_ticker_price.py, lines 40-70, for a record whose info dict has the
\* keys fields and the price Price; the summary values of the model's
\* quotes are numbers in range, which lines 53-70 let through
accepts(fields, price) ==
    LET missing_fields == required_fields \ fields
    IN  missing_fields = {} /\ price > 0

NoTickerPrice == [ran |-> FALSE, written |-> FALSE, symbols |-> {}]

\* merge_price_files of merge_ticker_price.py over the part file, lines
\* 33-84: the records that pass are merged; with none, no file is written
MergePrices ==
    /\ bpc = "done"
    /\ ~ticker_price.ran
    /\ LET merged_data == {e[1] : e \in {f \in part_file.prices :
                                              accepts(written_fields, f[2])}}
       IN  ticker_price' = [ran |-> TRUE, written |-> merged_data # {},
                            symbols |-> merged_data]
    /\ UNCHANGED <<plan, quotes, bpc, batch_calls, all_prices, all_failed_tickers, part_file>>
    /\ UNCHANGED <<fnVars, envVars, runVars, mergeVars, infoVars, pctVars, partVars, updVars, miVars>>

-----------------------------------------------------------------------------
(* The metadata build: phase 1 of main and process_batch of                 *)
(* build_ticker_info.py, run for part 0 and part 1 over the same data       *)
(* directory.                                                               *)

INFO_MAX_BATCH_RETRIES == 3
RETRY_SUBPASS == TRUE

Parts == {0, 1}
part_total == Cardinality(Parts)
\* the symbols fetch_nasdaq_symbols returns, in order
nasdaq_symbols == <<"S1", "S2", "S3">>
InfoSymbols == {nasdaq_symbols[k] : k \in 1..Len(nasdaq_symbols)}

\* An entry of ticker_info: {"info": {industry, sector, type}}, or no entry.
Info(sector, industry, type) ==
    [present |-> TRUE, sector |-> sector, industry |-> industry, type |-> type]
NoEntry == [present |-> FALSE, sector |-> "", industry |-> "", type |-> ""]
EmptyInfo == [y \in InfoSymbols |-> NoEntry]

\* nasdaq_data_map[symbol].get("Security Type", "Other")
SecurityType(y) == IF y = "S3" THEN "ETF" ELSE "Stock"

\* What get_modules answers for a symbol once the batch request gets
\* through: a summaryProfile with sector and industry, the symbol among the
\* failed ones, or an entry without summaryProfile.
AnswerKinds == {"good", "failed", "noprofile"}
\* extract_info, lines 149-156; None is the empty string
extract_sector(y) == IF answers[y] = "good" THEN "Technology" ELSE ""
extract_industry(y) == IF answers[y] = "good" THEN "Software" ELSE ""

GOOD_VALUES == {"unknown", "n/a", ""}
Lower(x) ==
    CASE x = "Unknown" -> "unknown"
      [] x = "Technology" -> "technology"
      [] x = "Software" -> "software"
      [] x = "Hardware" -> "hardware"
      [] OTHER -> x

\* lines 129-134, phase 1; existing.get(sym, {}) is NoEntry
is_incomplete(v) ==
    Lower(v.sector) \in GOOD_VALUES \/ Lower(v.industry) \in GOOD_VALUES

\* lines 139-144
needs_update(y, ex) ==
    \/ ~ex[y].present
    \/ force_refresh
    \/ is_incomplete(ex[y])

\* lines 170-177
quality(sector, industry) ==
    IF sector = "" \/ industry = "" THEN 0
    ELSE IF Lower(sector) \in GOOD_VALUES \/ Lower(industry) \in GOOD_VALUES THEN 0
    ELSE 1

\* lines 245-249
symbols_slice(p) ==
    LET per_part == Ceil(Len(nasdaq_symbols), part_total)
        start    == p * per_part
        end      == Min(start + per_part, Len(nasdaq_symbols))
    IN  SubSeq(nasdaq_symbols, start + 1, end)

\* sorted(...) of a set of symbols
SortedSymbols(S) == SelectSeq(nasdaq_symbols, LAMBDA y : y \in S)

Placeholder(y) == Info("n/a", "n/a", SecurityType(y))

\* lines 207-224: one symbol of the batch
OneSymbol(y, acc) ==
    LET ex == acc.existing
    IN  IF answers[y] = "failed"
        THEN [existing   |-> IF ex[y].present THEN ex ELSE [ex EXCEPT ![y] = Placeholder(y)],
              updated    |-> acc.updated,
              unresolved |-> Append(acc.unresolved, y)]
        ELSE LET sector   == extract_sector(y)
                 industry == extract_industry(y)
             IN  IF sector # "" /\ industry # "" /\ quality(sector, industry) = 1
                 THEN IF \/ ~ex[y].present
                         \/ ex[y].sector # sector
                         \/ ex[y].industry # industry
                      THEN [existing   |-> [ex EXCEPT ![y] =
                                               Info(sector, industry, SecurityType(y))],
                            updated    |-> acc.updated + 1,
                            unresolved |-> acc.unresolved]
                      ELSE acc
                 ELSE [existing   |-> IF ex[y].present THEN ex
                                      ELSE [ex EXCEPT ![y] = Placeholder(y)],
                       updated    |-> acc.updated,
                       unresolved |-> Append(acc.unresolved, y)]

\* lines 202-226: the symbols of the batch, in order
RECURSIVE Resolve(_, _)
Resolve(batch, acc) ==
    IF batch = <<>> THEN acc ELSE Resolve(Tail(batch), OneSymbol(Head(batch), acc))

NoReturn == [gave_up |-> FALSE, updated |-> 0, unresolved |-> <<>>, batch |-> <<>>]
NoSummaryFile ==
    [partition_index |-> -1, symbols_in_slice |-> 0, symbols_needing_update |-> 0,
     total_updated |-> 0, unresolved_after_run |-> 0, entries_in_file |-> 0]
NoWriter == [part |-> [q \in Parts |-> {}], unresolved |-> {}, summary |-> {}]

\* the process_batch calls of the run count the symbols of their batch
CountPass(p, batch) ==
    [passes EXCEPT ![p] = [y \in InfoSymbols |->
        IF \E k \in 1..Len(batch) : batch[k] = y THEN @[y] + 1 ELSE @[y]]]

\* save(existing, part_index, phase), lines 104-116
SavePart(p, ex) ==
    /\ fs_part' = [fs_part EXCEPT ![p] = ex]
    /\ written_by' = [written_by EXCEPT !.part[p] = @ \cup {p}]

\* lines 239-263: load the part file, take the slice, list what needs an
\* update; the slice fits in one batch
InfoStart(p) ==
    /\ ipc[p] = "start"
    /\ LET ex == fs_part[p]
           td == SelectSeq(symbols_slice(p), LAMBDA y : needs_update(y, ex))
       IN  /\ existing' = [existing EXCEPT ![p] = ex]
           /\ todo' = [todo EXCEPT ![p] = td]
           /\ ibatch' = [ibatch EXCEPT ![p] = td]
           /\ passes' = CountPass(p, td)
           /\ ipc' = [ipc EXCEPT ![p] = IF td = <<>> THEN "plan" ELSE "first"]
    /\ attempt' = [attempt EXCEPT ![p] = 0]
    /\ all_unresolved' = [all_unresolved EXCEPT ![p] = <<>>]
    /\ updated_total' = [updated_total EXCEPT ![p] = 0]
    /\ UNCHANGED <<force_refresh, answers, fs_part, fs_unresolved, fs_summary,
                   written_by, last_return, unresolved_final>>
    /\ UNCHANGED <<fnVars, envVars, runVars, mergeVars, batchVars, pctVars, partVars, updVars, miVars>>

InBatch(p) == ipc[p] \in {"first", "retry"}

\* lines 181-197: the batch request raises, process_batch sleeps and goes on
\* to the next attempt
InfoCallFails(p) ==
    /\ InBatch(p)
    /\ attempt[p] < INFO_MAX_BATCH_RETRIES
    /\ attempt' = [attempt EXCEPT ![p] = @ + 1]
    /\ UNCHANGED <<force_refresh, answers, fs_part, fs_unresolved, fs_summary,
                   written_by, ipc, existing, todo, ibatch, all_unresolved,
                   updated_total, last_return, passes, unresolved_final>>
    /\ UNCHANGED <<fnVars, envVars, runVars, mergeVars, batchVars, pctVars, partVars, updVars, miVars>>

\* lines 268-270 (first pass) and 286-287 (retry sub-pass) of main: what is
\* done with the return value r of process_batch
Returned(p, r) ==
    /\ last_return' = [last_return EXCEPT ![p] =
           [gave_up |-> r.gave_up, updated |-> r.updated,
            unresolved |-> r.unresolved, batch |-> ibatch[p]]]
    /\ existing' = [existing EXCEPT ![p] = r.existing]
    /\ updated_total' = [updated_total EXCEPT ![p] = @ + r.updated]
    /\ all_unresolved' = IF ipc[p] = "first"
                         THEN [all_unresolved EXCEPT ![p] = @ \o r.unresolved]
                         ELSE all_unresolved
    /\ SavePart(p, r.existing)
    /\ ipc' = [ipc EXCEPT ![p] = IF ipc[p] = "first" THEN "plan" ELSE "finish"]
    /\ attempt' = [attempt EXCEPT ![p] = 0]
    /\ UNCHANGED <<force_refresh, answers, fs_unresolved, fs_summary, todo, ibatch,
                   passes, unresolved_final>>
    /\ UNCHANGED <<fnVars, envVars, runVars, mergeVars, batchVars, pctVars, partVars, updVars, miVars>>

\* lines 181-193, 202-226: the batch request gets through
InfoCallOk(p) ==
    /\ InBatch(p)
    /\ attempt[p] < INFO_MAX_BATCH_RETRIES
    /\ LET r == Resolve(ibatch[p],
                   [existing |-> existing[p], updated |-> 0, unresolved |-> <<>>])
       IN  Returned(p, [gave_up |-> FALSE, existing |-> r.existing,
                        updated |-> r.updated, unresolved |-> r.unresolved])

\* lines 198-200: every attempt raised, process_batch returns 0, batch
InfoGiveUp(p) ==
    /\ InBatch(p)
    /\ attempt[p] = INFO_MAX_BATCH_RETRIES
    /\ Returned(p, [gave_up |-> TRUE, existing |-> existing[p],
                    updated |-> 0, unresolved |-> ibatch[p]])

\* lines 278-283: the symbols of all_unresolved whose entry is incomplete are
\* put through process_batch once more, as one batch
InfoPlanRetry(p) ==
    /\ ipc[p] = "plan"
    /\ LET unresolved_unique ==
               SortedSymbols({y \in {all_unresolved[p][k] : k \in 1..Len(all_unresolved[p])} :
                                 is_incomplete(existing[p][y])})
       IN  IF RETRY_SUBPASS /\ all_unresolved[p] # <<>> /\ unresolved_unique # <<>>
           THEN /\ ipc' = [ipc EXCEPT ![p] = "retry"]
                /\ ibatch' = [ibatch EXCEPT ![p] = unresolved_unique]
                /\ passes' = CountPass(p, unresolved_unique)
           ELSE /\ ipc' = [ipc EXCEPT ![p] = "finish"]
                /\ UNCHANGED <<ibatch, passes>>
    /\ UNCHANGED <<force_refresh, answers, fs_part, fs_unresolved, fs_summary,
                   written_by, existing, todo, attempt, all_unresolved,
                   updated_total, last_return, unresolved_final>>
    /\ UNCHANGED <<fnVars, envVars, runVars, mergeVars, batchVars, pctVars, partVars, updVars, miVars>>

\* lines 292-294
InfoWriteUnresolved(p) ==
    /\ ipc[p] = "finish"
    /\ LET final == SortedSymbols({y \in InfoSymbols :
                        existing[p][y].present /\ is_incomplete(existing[p][y])})
       IN  /\ unresolved_final' = [unresolved_final EXCEPT ![p] = final]
           /\ fs_unresolved' = final
    /\ written_by' = [written_by EXCEPT !.unresolved = @ \cup {p}]
    /\ ipc' = [ipc EXCEPT ![p] = "save"]
    /\ UNCHANGED <<force_refresh, answers, fs_part, fs_summary, existing, todo,
                   ibatch, attempt, all_unresolved, updated_total, last_return, passes>>
    /\ UNCHANGED <<fnVars, envVars, runVars, mergeVars, batchVars, pctVars, partVars, updVars, miVars>>

\* line 296
InfoSave(p) ==
    /\ ipc[p] = "save"
    /\ SavePart(p, existing[p])
    /\ ipc' = [ipc EXCEPT ![p] = "summary"]
    /\ UNCHANGED <<force_refresh, answers, fs_unresolved, fs_summary, existing, todo,
                   ibatch, attempt, all_unresolved, updated_total, last_return,
                   passes, unresolved_final>>
    /\ UNCHANGED <<fnVars, envVars, runVars, mergeVars, batchVars, pctVars, partVars, updVars, miVars>>

\* lines 298-311
InfoSummary(p) ==
    /\ ipc[p] = "summary"
    /\ fs_summary' =
           [partition_index        |-> p,
            symbols_in_slice       |-> Len(symbols_slice(p)),
            symbols_needing_update |-> Len(todo[p]),
            total_updated          |-> updated_total[p],
            unresolved_after_run   |-> Len(unresolved_final[p]),
            entries_in_file        |-> Cardinality({y \in InfoSymbols : existing[p][y].present})]
    /\ written_by' = [written_by EXCEPT !.summary = @ \cup {p}]
    /\ ipc' = [ipc EXCEPT ![p] = "done"]
    /\ UNCHANGED <<force_refresh, answers, fs_part, fs_unresolved, existing, todo,
                   ibatch, attempt, all_unresolved, updated_total, last_return,
                   passes, unresolved_final>>
    /\ UNCHANGED <<fnVars, envVars, runVars, mergeVars, batchVars, pctVars, partVars, updVars, miVars>>

-----------------------------------------------------------------------------
(* Specifications.  Each one runs one part of the pipeline and leaves the   *)
(* variables of the other parts at rest.                                    *)

FnIdle ==
    /\ closes = [len |-> 0, shape |-> FlatShape]
    /\ closes_ref = [len |-> 0, shape |-> FlatShape]
    /\ rs_out = NaN
    /\ quarter_perfs = <<NaN, NaN, NaN, NaN>>
    /\ strength_out = NaN
    /\ rs_short = <<NaN, NaN, NaN>>
    /\ fpc = "idle"

EnvIdle ==
    /\ store_ok = FALSE
    /\ lib = [s \in Symbols |-> Absent]
    /\ meta_ok = FALSE
    /\ mtype = [t \in Tickers |-> "Stock"]

\* before generate_tradingview_csv is called
NoRatingArgs == [percentile_values |-> <<>>, calendar |-> "unavailable", latest_date |-> 0]

RunIdle ==
    /\ rpc = "idle"
    /\ tickers = <<>>
    /\ idx = 0
    /\ insufficient_tickers = <<>>
    /\ rs_results = <<>>
    /\ df_stocks = <<>>
    /\ files = <<>>
    /\ rating_args = NoRatingArgs

MergeIdle ==
    /\ shards = [i \in ShardIds |-> EmptyShard("missing")]
    /\ dest = EmptyDest
    /\ mpc = "idle"
    /\ mrun = "first"
    /\ first_dest = EmptyDest
    /\ src_dirs = <<>>
    /\ si = 0
    /\ symbols = <<>>
    /\ yi = 0
    /\ total_merged = 0
    /\ shard_merged = 0
    /\ all_symbols = {}
    /\ duplicate_symbols = {}
    /\ failed_symbols = <<>>
    /\ merged_log = {}
    /\ merge_summary = NoSummary

BatchIdle ==
    /\ plan = <<>>
    /\ quotes = [s \in PartSymbols |-> NoQuote]
    /\ bpc = "idle"
    /\ batch_calls = 0
    /\ all_prices = {}
    /\ all_failed_tickers = <<>>
    /\ part_file = NoFile
    /\ ticker_price = NoTickerPrice

InfoIdle ==
    /\ force_refresh = FALSE
    /\ answers = [y \in InfoSymbols |-> "good"]
    /\ fs_part = [q \in Parts |-> EmptyInfo]
    /\ fs_unresolved = <<>>
    /\ fs_summary = NoSummaryFile
    /\ written_by = NoWriter
    /\ ipc = [q \in Parts |-> "idle"]
    /\ existing = [q \in Parts |-> EmptyInfo]
    /\ todo = [q \in Parts |-> <<>>]
    /\ ibatch = [q \in Parts |-> <<>>]
    /\ attempt = [q \in Parts |-> 0]
    /\ all_unresolved = [q \in Parts |-> <<>>]
    /\ updated_total = [q \in Parts |-> 0]
    /\ last_return = [q \in Parts |-> NoReturn]
    /\ passes = [q \in Parts |-> [y \in InfoSymbols |-> 0]]
    /\ unresolved_final = [q \in Parts |-> <<>>]

PctIdle ==
    /\ col_values = <<>>
    /\ col_percentile = <<>>
    /\ cpc = "idle"

PartIdle ==
    /\ plist = <<>>
    /\ ptotal = 0
    /\ pscheme = "idle"
    /\ pslices = <<>>

UpdIdle ==
    /\ u_ticker_info = {}
    /\ u_failed_symbols = <<>>
    /\ u_i = 0
    /\ u_results = <<>>
    /\ u_k = 0
    /\ u_raised = {}
    /\ u_files = <<>>
    /\ upc = "idle"

-----------------------------------------------------------------------------
(* merge_ticker_info of merge_ticker_info.py.  Info, NoEntry and Lower are  *)
(* those of the metadata runs.                                              *)

MiFileIds == {1, 2, 3}
MiSymbols == {"S1", "S2"}
\* what a part file may hold for S1 and for S2
MiRecords1 == {NoEntry, Info("n/a", "n/a", "Stock"), Info("Technology", "Unknown", "ETF"),
               Info("Technology", "Software", "Stock"), Info("Hardware", "Software", "ETF")}
MiRecords2 == {NoEntry, Info("n/a", "n/a", "Stock"), Info("Technology", "Software", "Stock")}
\* a part file: not valid JSON, or a dict of records
InvalidJson == [valid |-> FALSE, data |-> [y \in MiSymbols |-> NoEntry]]
PartFiles ==
    {InvalidJson} \cup
    {[valid |-> TRUE, data |-> [y \in MiSymbols |-> IF y = "S1" THEN r1 ELSE r2]] :
        r1 \in MiRecords1, r2 \in MiRecords2}

\* lines 24-27; {}.get("sector", "") is the empty string of NoEntry
merge_quality(info) ==
    IF Lower(info.sector) \notin {"", "n/a", "unknown"}
       /\ Lower(info.industry) \notin {"", "n/a", "unknown"} THEN 1 ELSE 0

merge_record_last(cur, rec) == rec

\* lines 92-95: what merged[sym] becomes when a file holds rec for sym
merge_record(cur, rec) ==
    IF ~cur.present \/ merge_quality(rec) > merge_quality(cur) THEN rec
    ELSE IF merge_quality(rec) = merge_quality(cur) THEN [cur EXCEPT !.type = rec.type]
    ELSE cur

\* lines 78-89: a file that is not valid JSON is skipped
MiSkip ==
    /\ mipc = "files"
    /\ mi_pos < Len(ticker_files)
    /\ ~mi_files[ticker_files[mi_pos + 1]].valid
    /\ mi_pos' = mi_pos + 1
    /\ UNCHANGED <<mi_files, ticker_files, merged, mi_out, mipc>>
    /\ UNCHANGED <<fnVars, envVars, runVars, mergeVars, batchVars, infoVars, pctVars, partVars, updVars>>

\* lines 78-95: the records of one file are merged
MiFile ==
    /\ mipc = "files"
    /\ mi_pos < Len(ticker_files)
    /\ LET part_data == mi_files[ticker_files[mi_pos + 1]]
       IN  /\ part_data.valid
           /\ merged' = [y \in MiSymbols |->
                            IF part_data.data[y].present
                            THEN merge_record(merged[y], part_data.data[y])
                            ELSE merged[y]]
    /\ mi_pos' = mi_pos + 1
    /\ UNCHANGED <<mi_files, ticker_files, mi_out, mipc>>
    /\ UNCHANGED <<fnVars, envVars, runVars, mergeVars, batchVars, infoVars, pctVars, partVars, updVars>>

\* lines 97-99: nothing was merged: no ticker_info.json is written
MiNothing ==
    /\ mipc = "files"
    /\ mi_pos = Len(ticker_files)
    /\ \A y \in MiSymbols : ~merged[y].present
    /\ mipc' = "done"
    /\ UNCHANGED <<mi_files, ticker_files, mi_pos, merged, mi_out>>
    /\ UNCHANGED <<fnVars, envVars, runVars, mergeVars, batchVars, infoVars, pctVars, partVars, updVars>>

\* lines 101-104: ticker_info.json is written
MiWrite ==
    /\ mipc = "files"
    /\ mi_pos = Len(ticker_files)
    /\ \E y \in MiSymbols : merged[y].present
    /\ mi_out' = [written |-> TRUE, data |-> merged]
    /\ mipc' = "done"
    /\ UNCHANGED <<mi_files, ticker_files, mi_pos, merged>>
    /\ UNCHANGED <<fnVars, envVars, runVars, mergeVars, batchVars, infoVars, pctVars, partVars, updVars>>

-----------------------------------------------------------------------------

NoTickerInfo == [written |-> FALSE, data |-> [y \in MiSymbols |-> NoEntry]]

MiIdle ==
    /\ mi_files = <<>>
    /\ ticker_files = <<>>
    /\ mi_pos = 0
    /\ merged = <<>>
    /\ mi_out = NoTickerInfo
    /\ mipc = "idle"

FnInit ==
    /\ MiIdle
    /\ UpdIdle
    /\ PartIdle
    /\ PctIdle
    /\ RunIdle
    /\ EnvIdle
    /\ MergeIdle
    /\ BatchIdle
    /\ InfoIdle
    /\ closes \in SeriesIds
    /\ closes_ref \in SeriesIds
    /\ rs_out = NaN
    /\ quarter_perfs = <<NaN, NaN, NaN, NaN>>
    /\ strength_out = NaN
    /\ rs_short = <<NaN, NaN, NaN>>
    /\ fpc = "init"

FnNext == FnApply

FnSpec == FnInit /\ [][FnNext]_vars

\* RunSpec: one RS run over every store and metadata of the model.
RunInit ==
    /\ MiIdle
    /\ UpdIdle
    /\ PartIdle
    /\ PctIdle
    /\ FnIdle
    /\ MergeIdle
    /\ BatchIdle
    /\ InfoIdle
    /\ store_ok \in BOOLEAN
    /\ lib \in [Symbols -> TickerEntries \cup RefEntries]
    /\ lib[reference_ticker] \in RefEntries
    /\ \A t \in Tickers : lib[t] \in TickerEntries
    /\ meta_ok \in BOOLEAN
    /\ mtype \in [Tickers -> SecurityTypes]
    \* what is never read is fixed
    /\ ~store_ok => lib = [s \in Symbols |-> Absent]
    /\ (~store_ok \/ ~meta_ok) => mtype = [t \in Tickers |-> "Stock"]
    /\ rpc = "load"
    /\ tickers = <<>>
    /\ idx = 0
    /\ insufficient_tickers = <<>>
    /\ rs_results = <<>>
    /\ df_stocks = <<>>
    /\ files = <<>>
    /\ rating_args = NoRatingArgs

RunNext ==
    \/ Load \/ CheckRef \/ ReadRef \/ Precheck
    \/ LoopSkipRef \/ LoopScore \/ LoopExcept \/ Frame
    \/ Percentiles \/ IpoNoType \/ IpoReadRaises \/ Ipo
    \/ WriteStocks \/ Industries \/ Rating

RunSpec == RunInit /\ [][RunNext]_vars

\* MergeSpec: the merge of every set of shards of the model into a fresh
\* destination, then run once more.
MergeInit ==
    /\ MiIdle
    /\ UpdIdle
    /\ PartIdle
    /\ PctIdle
    /\ FnIdle
    /\ EnvIdle
    /\ RunIdle
    /\ BatchIdle
    /\ InfoIdle
    /\ shards \in [ShardIds -> ShardValues]
    /\ Faults(shards) <= MaxFaults
    /\ dest = EmptyDest
    /\ mpc = "start"
    /\ mrun = "first"
    /\ first_dest = EmptyDest
    /\ src_dirs = <<>>
    /\ si = 0
    /\ symbols = <<>>
    /\ yi = 0
    /\ total_merged = 0
    /\ shard_merged = 0
    /\ all_symbols = {}
    /\ duplicate_symbols = {}
    /\ failed_symbols = <<>>
    /\ merged_log = {}
    /\ merge_summary = NoSummary

MergeNext ==
    \/ MergeStart \/ ShardBroken \/ ShardNoLibrary \/ ShardList
    \/ SymbolMerged \/ SymbolInvalid \/ SymbolExcept \/ ShardDone
    \/ Summary \/ MergeAgain

MergeSpec == MergeInit /\ [][MergeNext]_vars

\* BatchSpec: the price build of one part, for every way the successive
\* batch requests can fare and every answer of the provider.
BatchInit ==
    /\ MiIdle
    /\ UpdIdle
    /\ PartIdle
    /\ PctIdle
    /\ FnIdle
    /\ EnvIdle
    /\ RunIdle
    /\ MergeIdle
    /\ InfoIdle
    /\ plan \in [1..MAX_BATCH_RETRIES -> Outcomes]
    /\ quotes \in [PartSymbols -> QuoteKinds]
    /\ bpc = "first"
    /\ batch_calls = 0
    /\ all_prices = {}
    /\ all_failed_tickers = <<>>
    /\ part_file = NoFile
    /\ ticker_price = NoTickerPrice

BatchNext == FirstPass \/ RetryPass \/ WritePart \/ MergePrices

BatchSpec == BatchInit /\ [][BatchNext]_vars

\* PctSpec: the percentiles of one column of up to MaxCol scores: all
\* different, in either order, tied in pairs or triples, all tied, or with
\* every third score or the first score undefined.
ColumnShapes == {"rising", "falling", "pairs", "triples", "tied", "gaps", "headless"}
Column(n, shape) ==
    [i \in 1..n |->
        CASE shape = "rising"  -> Int2Rat(i)
          [] shape = "falling" -> Int2Rat(n + 1 - i)
          [] shape = "pairs"   -> Int2Rat((i + 1) \div 2)
          [] shape = "triples" -> Int2Rat((i + 2) \div 3)
          [] shape = "tied"    -> Int2Rat(1)
          [] shape = "headless" -> IF i = 1 THEN NaN ELSE Int2Rat(n + 1 - i)
          [] shape = "gaps"    -> IF i % 3 = 0 THEN NaN ELSE Int2Rat(i)]

PctInit ==
    /\ MiIdle
    /\ UpdIdle
    /\ PartIdle
    /\ FnIdle
    /\ EnvIdle
    /\ RunIdle
    /\ MergeIdle
    /\ BatchIdle
    /\ InfoIdle
    /\ \E n \in 1..MaxCol, shape \in ColumnShapes : col_values = Column(n, shape)
    /\ col_percentile = <<>>
    /\ cpc = "init"

PctNext == PctApply

PctSpec == PctInit /\ [][PctNext]_vars

\* PartSpec: the part jobs of one build, run in any order over one list of
\* up to MaxList tickers (numbered in list order) cut into up to MaxParts
\* parts.
PartInit ==
    /\ MiIdle
    /\ UpdIdle
    /\ FnIdle
    /\ EnvIdle
    /\ RunIdle
    /\ MergeIdle
    /\ BatchIdle
    /\ InfoIdle
    /\ PctIdle
    /\ \E n \in 0..MaxList : plist = [k \in 1..n |-> k]
    /\ ptotal \in 1..MaxParts
    /\ pscheme \in {"price", "info"}
    /\ pslices = <<>>

PartNext ==
    \/ \E i \in 0..(ptotal - 1) : PricePart(i)
    \/ \E i \in 0..(ptotal - 1) : InfoPart(i)

PartSpec == PartInit /\ [][PartNext]_vars

\* UpdSpec: one run of update_stocks.py over the listing, starting from any
\* existing ticker_info.json or none.
UpdInit ==
    /\ MiIdle
    /\ FnIdle
    /\ EnvIdle
    /\ RunIdle
    /\ MergeIdle
    /\ BatchIdle
    /\ InfoIdle
    /\ PctIdle
    /\ PartIdle
    /\ u_ticker_info \in SUBSET {u_symbols[1], "OLD"}
    /\ u_failed_symbols = <<>>
    /\ u_i = 0
    /\ u_results = <<>>
    /\ u_k = 0
    /\ u_raised = {}
    /\ u_files = <<>>
    /\ upc = "batch"

UpdNext == UpdBatch \/ UpdResult \/ UpdNextBatch \/ UpdSave

UpdSpec == UpdInit /\ [][UpdNext]_vars

\* MiSpec: the merge of every three part files of the model, listed by glob
\* in any order.
FileOrders ==
    {o \in [1..Cardinality(MiFileIds) -> MiFileIds] :
        \A a, b \in 1..Cardinality(MiFileIds) : a # b => o[a] # o[b]}

MiInit ==
    /\ FnIdle
    /\ EnvIdle
    /\ RunIdle
    /\ MergeIdle
    /\ BatchIdle
    /\ InfoIdle
    /\ PctIdle
    /\ PartIdle
    /\ UpdIdle
    /\ mi_files \in [MiFileIds -> PartFiles]
    /\ ticker_files \in FileOrders
    /\ mi_pos = 0
    /\ merged = [y \in MiSymbols |-> NoEntry]
    /\ mi_out = NoTickerInfo
    /\ mipc = "files"

MiNext == MiSkip \/ MiFile \/ MiNothing \/ MiWrite

MiSpec == MiInit /\ [][MiNext]_vars

\* InfoSpec: the metadata runs of part 0 and part 1, interleaved in every
\* way, for every answer of the provider.  The part file of part 0 may hold an
\* entry for S1 from an earlier run.
FirstEntries == {NoEntry, Info("Technology", "Hardware", "Stock"), Info("n/a", "n/a", "Stock")}

InfoInit ==
    /\ MiIdle
    /\ UpdIdle
    /\ PartIdle
    /\ PctIdle
    /\ FnIdle
    /\ EnvIdle
    /\ RunIdle
    /\ MergeIdle
    /\ BatchIdle
    /\ force_refresh \in BOOLEAN
    /\ answers \in [InfoSymbols -> AnswerKinds]
    /\ \E e \in FirstEntries :
           fs_part = [q \in Parts |-> IF q = 0 THEN [EmptyInfo EXCEPT !["S1"] = e]
                                       ELSE EmptyInfo]
    /\ fs_unresolved = <<>>
    /\ fs_summary = NoSummaryFile
    /\ written_by = NoWriter
    /\ ipc = [q \in Parts |-> "start"]
    /\ existing = [q \in Parts |-> EmptyInfo]
    /\ todo = [q \in Parts |-> <<>>]
    /\ ibatch = [q \in Parts |-> <<>>]
    /\ attempt = [q \in Parts |-> 0]
    /\ all_unresolved = [q \in Parts |-> <<>>]
    /\ updated_total = [q \in Parts |-> 0]
    /\ last_return = [q \in Parts |-> NoReturn]
    /\ passes = [q \in Parts |-> [y \in InfoSymbols |-> 0]]
    /\ unresolved_final = [q \in Parts |-> <<>>]

InfoNext ==
    \E p \in Parts :
        \/ InfoStart(p) \/ InfoCallFails(p) \/ InfoCallOk(p) \/ InfoGiveUp(p)
        \/ InfoPlanRetry(p) \/ InfoWriteUnresolved(p) \/ InfoSave(p) \/ InfoSummary(p)

InfoSpec == InfoInit /\ [][InfoNext]_vars

-----------------------------------------------------------------------------
(* Claims about the relative-strength functions (checked under FnSpec).     *)

C1_Ratio(c, cref) ==
    RMul(RDiv(RAdd(Int2Rat(1), strength(c)), RAdd(Int2Rat(1), strength(cref))),
         Int2Rat(100))

\* x is a multiple of 1/100 and lies within 1/200 of y
C1_IsRounding(x, y) ==
    /\ ~isnan(x)
    /\ 100 % x.d = 0
    /\ RLeq(RAdd(y, Rat(-1, 200)), x)
    /\ RLeq(x, RAdd(y, Rat(1, 200)))

\* C1: relative_strength is NaN whenever the ticker's or the benchmark's
\* weighted score is NaN, NaN whenever (1+stock)/(1+benchmark)*100 exceeds
\* 590, and otherwise that ratio rounded to 2 decimals; it is never defaulted
\* to 0 or to the benchmark's value.
C1_RelativeStrengthIsReference ==
    fpc = "done" =>
        LET c    == Closes(closes)
            cref == Closes(closes_ref)
        IN  IF isnan(strength(c)) \/ isnan(strength(cref)) THEN isnan(rs_out)
            ELSE IF RLt(Int2Rat(RSCap), C1_Ratio(c, cref)) THEN isnan(rs_out)
            ELSE C1_IsRounding(rs_out, C1_Ratio(c, cref))

\* The cap is hit: both scores are defined, the ratio exceeds 590, NaN is returned.
C1_Witness ==
    /\ fpc = "done"
    /\ ~isnan(strength(Closes(closes)))
    /\ ~isnan(strength(Closes(closes_ref)))
    /\ RLt(Int2Rat(RSCap), C1_Ratio(Closes(closes), Closes(closes_ref)))
    /\ isnan(rs_out)

-----------------------------------------------------------------------------
(* Claims about quarters_perf, strength and short_relative_strength,        *)
(* checked under FnSpec.                                                    *)

Window(c, k) ==
    [lo |-> Max(1, Len(c) - k * QuarterDays), hi |-> Len(c) - (k - 1) * QuarterDays]
WindowHasData(c, k) == Window(c, k).hi >= 2
WindowReturn(c, k) ==
    RAdd(Rat(c[Window(c, k).hi], c[Window(c, k).lo]), Int2Rat(-1))
ConsecutiveScore(c) ==
    LET ks    == {k \in 1..4 : WindowHasData(c, k)}
        wsum  == RSum([k \in 1..Cardinality(ks) |-> Weights[k]])
    IN  IF ks = {} THEN NaN
        ELSE RDiv(RSum([k \in 1..Cardinality(ks) |->
                           RMul(Weights[k], WindowReturn(c, k))]), wsum)

TrailingReturn(c, d) ==
    RAdd(Rat(c[Len(c)], c[Max(1, Len(c) - d)]), Int2Rat(-1))

C23_Ratio(c, cref, d) ==
    RMul(RDiv(Rat(c[Len(c)], c[Len(c) - d]),
              Rat(cref[Len(cref)], cref[Len(cref) - d])), Int2Rat(100))

\* C23: for d in {21, 63, 126} the short-horizon RS is undefined when the
\* ticker or the benchmark has fewer than d + 1 bars, and otherwise it is
\* 100 times the ratio of the two trailing return factors measured from the
\* close d trading days before the last bar, rounded to 2 decimals (or
\* undefined, where the cap of 590 applies).
C23_ShortRSOverDDays ==
    fpc = "done" =>
        \A k \in 1..3 :
            LET d    == ShortDays[k]
                c    == Closes(closes)
                cref == Closes(closes_ref)
            IN  IF Len(c) < d + 1 \/ Len(cref) < d + 1
                THEN isnan(rs_short[k])
                ELSE \/ isnan(rs_short[k])
                     \/ C1_IsRounding(rs_short[k], C23_Ratio(c, cref, d))

-----------------------------------------------------------------------------
(* Claims about the RS run (checked under RunSpec).                         *)

Ranked == rpc \in {"ipo", "write_stocks", "industries", "rating", "done"}
IsPercentile(x) == ~isnan(x) /\ x.d = 1 /\ x.n \in 0..99

\* C2: for each horizon independently, every ticker with a defined score for
\* the horizon receives an integer percentile in 0..99 and every ticker with an
\* undefined score receives no percentile (NaN, not 0).
C2_PercentilePerHorizon ==
    Ranked =>
        \A i \in 1..Len(df_stocks) : \A k \in 1..4 :
            IF isnan(df_stocks[i].rs[k])
            THEN isnan(df_stocks[i].pct[k])
            ELSE IsPercentile(df_stocks[i].pct[k])

\* A ticker has a percentile for the composite horizon and none for 1M.
C2_Witness ==
    /\ Ranked
    /\ \E i \in 1..Len(df_stocks) :
           /\ IsPercentile(df_stocks[i].pct[1])
           /\ ~isnan(df_stocks[i].rs[1])
           /\ isnan(df_stocks[i].rs[2])
           /\ isnan(df_stocks[i].pct[2])

\* the column without the rows of drop
C3_Without(col, drop) ==
    SelectSeq([i \in 1..Len(col) |-> [v |-> col[i], keep |-> i \notin drop]],
              LAMBDA e : e.keep)
C3_PosWithout(i, drop) == i - Cardinality({j \in drop : j < i})

\* C3: within one horizon the percentile is monotonic non-decreasing in the
\* raw score, and removing (or adding back) any set of tickers whose score for
\* the horizon is undefined changes no percentile of a ticker with a defined
\* score.
C3_MonotoneAndUndefinedIrrelevant ==
    Ranked =>
        \A k \in 1..4 :
            LET n     == Len(df_stocks)
                col   == [i \in 1..n |-> df_stocks[i].rs[k]]
                undef == {i \in 1..n : isnan(col[i])}
            IN  /\ \A a, b \in (1..n) \ undef :
                       RLeq(col[a], col[b]) =>
                           RLeq(df_stocks[a].pct[k], df_stocks[b].pct[k])
                /\ \A drop \in SUBSET undef :
                       LET sub == [i \in 1..(n - Cardinality(drop)) |->
                                      C3_Without(col, drop)[i].v]
                       IN  \A i \in (1..n) \ undef :
                               df_stocks[i].pct[k]
                                   = PercentileCol(sub)[C3_PosWithout(i, drop)]

\* Two tickers with different defined scores and different percentiles, next
\* to a ticker whose score for the horizon is undefined.
C3_Witness ==
    /\ Ranked
    /\ \E a, b, c \in 1..Len(df_stocks) :
           /\ ~isnan(df_stocks[a].rs[1]) /\ ~isnan(df_stocks[b].rs[1])
           /\ RLt(df_stocks[a].rs[1], df_stocks[b].rs[1])
           /\ RLt(df_stocks[a].pct[1], df_stocks[b].pct[1])
           /\ isnan(df_stocks[c].rs[1])

\* The conditions under which the run must not produce a ranking.
C8_Fatal ==
    \/ ~store_ok
    \/ ~Present(reference_ticker)
    \/ lib[reference_ticker].kind = "ok" /\ NumBars(reference_ticker) < MinRefBars
    \/ \A t \in Tickers : ~Present(t)

\* C8: if the store cannot be opened, the benchmark is absent or has fewer
\* than 20 bars, or there is no ticker to score, the run writes none of the
\* output files and never gets past the step that detects the condition: from
\* there it can only leave by the failure exit.
C8_FatalRunWritesNothing ==
    /\ C8_Fatal => DOMAIN files = {} /\ rpc # "done"
    /\ ~store_ok => rpc \in {"load", "exit1"}
    /\ (store_ok /\ ~Present(reference_ticker)) =>
           rpc \in {"load", "check_ref", "exit1"}
    /\ (store_ok /\ lib[reference_ticker].kind = "ok"
             /\ NumBars(reference_ticker) < MinRefBars) =>
           rpc \in {"load", "check_ref", "read_ref", "exit1"}
    /\ (store_ok /\ \A t \in Tickers : ~Present(t)) =>
           rpc \in {"load", "check_ref", "read_ref", "precheck", "loop",
                    "exit1", "crash"}

\* The benchmark has 19 bars, there are tickers to score, the run has exited.
C8_Witness ==
    /\ rpc = "exit1"
    /\ store_ok
    /\ lib[reference_ticker].kind = "ok"
    /\ NumBars(reference_ticker) = MinRefBars - 1
    /\ \E t \in Tickers : lib[t].kind = "ok" /\ NumBars(t) >= 2
    /\ DOMAIN files = {}

C9_RefUsable ==
    /\ store_ok
    /\ lib[reference_ticker].kind = "ok"
    /\ NumBars(reference_ticker) >= MinRefBars

\* C9: an exception raised while reading or processing one ticker's series, at
\* any point of the run, never aborts the run: the ticker is in the stock
\* table with undefined scores and every other ticker is still emitted.
\* (Stated for runs with usable metadata and a usable benchmark.)
C9_TickerExceptionNeverAborts ==
    (C9_RefUsable /\ meta_ok) =>
        /\ rpc # "crash"
        /\ rpc = "done" =>
               LET table == files["rs_stocks.csv"]
               IN  \A t \in Tickers : Present(t) =>
                       \E i \in 1..Len(table) :
                           /\ table[i].ticker = t
                           /\ (ReadRaises(t) \/ CloseMissing(t)) =>
                                  \A k \in 1..4 : isnan(table[i].pct[k])


-----------------------------------------------------------------------------
(* Claims about the industry table and the IPO flag, checked under RunSpec. *)

HasFile(name) == name \in DOMAIN files
StockRows == files["rs_stocks.csv"]
IndustryRows == files["rs_industries.csv"]
InSeqOf(x, q) == \E k \in 1..Len(q) : q[k] = x
\* the rows of the stock table that belong to industry g
MembersOf(g) == {i \in 1..Len(StockRows) : StockRows[i].industry = g}
RECURSIVE SumPct(_, _)
SumPct(I, k) ==
    IF I = {} THEN 0
    ELSE LET i == CHOOSE j \in I : TRUE
         IN  StockRows[i].pct[k].n + SumPct(I \ {i}, k)

\* C18: for every industry group and every horizon, the aggregate of the
\* industry table is the integer nearest to the unweighted mean of the
\* percentiles of the group's members that have one.
C18_IndustryMeanOfMembers ==
    HasFile("rs_industries.csv") =>
        \A j \in 1..Len(IndustryRows), k \in 1..4 :
            LET having == {i \in MembersOf(IndustryRows[j].industry) :
                              ~isnan(StockRows[i].pct[k])}
                n      == Cardinality(having)
                v      == IndustryRows[j].vals[k]
            IN  n > 0 => 2 * Abs(v * n - SumPct(having, k)) <= n

\* A group of two members with different percentiles, and a group in which
\* one member has a percentile and another has none.
C18_Witness ==
    /\ HasFile("rs_industries.csv")
    /\ \E j \in 1..Len(IndustryRows) :
           \E a, b \in MembersOf(IndustryRows[j].industry) :
               /\ ~isnan(StockRows[a].pct[1]) /\ ~isnan(StockRows[b].pct[1])
               /\ StockRows[a].pct[1] # StockRows[b].pct[1]
               /\ 2 * IndustryRows[j].vals[1] =
                      StockRows[a].pct[1].n + StockRows[b].pct[1].n
    /\ \E j \in 1..Len(IndustryRows) :
           \E a, b \in MembersOf(IndustryRows[j].industry) :
               /\ ~isnan(StockRows[a].pct[2]) /\ isnan(StockRows[b].pct[2])
               /\ IndustryRows[j].vals[2] = StockRows[a].pct[2].n
               /\ IndustryRows[j].vals[2] > 0

\* C19: in the industry table a ticker of security type ETF is a member of
\* the group named "ETF", whose sector is "ETF", and of no other group.
C19_EtfOnlyInEtfGroup ==
    HasFile("rs_industries.csv") =>
        \A j \in 1..Len(IndustryRows), t \in Tickers :
            (InSeqOf(t, IndustryRows[j].ticker) /\ mtype[t] = "ETF") =>
                IndustryRows[j].industry = "ETF" /\ IndustryRows[j].sector = "ETF"

C19_Witness ==
    /\ HasFile("rs_industries.csv")
    /\ \E j, h \in 1..Len(IndustryRows) :
           /\ IndustryRows[j].industry = "ETF"
           /\ \E t \in Tickers : InSeqOf(t, IndustryRows[j].ticker) /\ mtype[t] = "ETF"
           /\ IndustryRows[h].industry # "ETF"
           /\ \E t \in Tickers : InSeqOf(t, IndustryRows[h].ticker) /\ mtype[t] = "Stock"

ShortHistoryStock(t) ==
    /\ lib[t].kind = "ok"
    /\ NumBars(t) = 5
    /\ mtype[t] = "Stock"
    /\ lib[reference_ticker].kind = "ok"
    /\ NumBars(reference_ticker) = FullLen

\* C20: a stock with 5 bars, next to a benchmark with a full history, is a
\* row of the stock table, is flagged IPO = Yes, and its RS fields are blank.
C20_ShortHistoryBlankRS ==
    HasFile("rs_stocks.csv") =>
        \A t \in Tickers :
            ShortHistoryStock(t) =>
                \E i \in 1..Len(StockRows) :
                    /\ StockRows[i].ticker = t
                    /\ StockRows[i].ipo = "Yes"
                    /\ \A k \in 1..4 : isnan(StockRows[i].pct[k])

\* C28: without metadata (no file given, or a missing or invalid file) the
\* RS run still completes: once the stock table is built, the run does not
\* end in an uncaught exception.
C28_CompletesWithoutMetadata ==
    (~meta_ok /\ df_stocks # <<>>) => rpc # "crash"

-----------------------------------------------------------------------------
(* Claims about the percentiles of a column, checked under PctSpec.         *)

\* C24: within one column, equal scores have the same percentile, and the
\* percentile of a defined score s is floor(99 * r / N), N being the number
\* of defined scores and r one plus the number of defined scores smaller
\* than s.
C24_MinRankFloor ==
    cpc = "done" =>
        LET valid == {i \in 1..Len(col_values) : ~isnan(col_values[i])}
            N     == Cardinality(valid)
            r(i)  == 1 + Cardinality({j \in valid : RLt(col_values[j], col_values[i])})
        IN  /\ \A i \in valid : col_percentile[i] = Int2Rat((99 * r(i)) \div N)
            /\ \A i, j \in valid :
                   col_values[i] = col_values[j] => col_percentile[i] = col_percentile[j]

\* C25: the rating file holds five rows for each configured threshold, each
\* row of the form date,0,1000,0,rs_value,0 with an eight-digit date
\* followed by T; the five rows of a band hold five different dates and one
\* RS value; the bands follow each other from the highest threshold down, so
\* that the RS values never rise down the file; with no defined RS too.
RatingRows == files["RSRATING.csv"]
IsDateString(d) ==
    /\ Len(d) = 9
    /\ \A i \in 1..8 : \E n \in 0..9 : d[i] = Digit(n)
    /\ d[9] = "T"
DefinedRS == {i \in 1..Len(df_stocks) : ~isnan(df_stocks[i].rs[1])}
C25_RatingRows ==
    rpc = "done" =>
        LET pv   == rating_args.percentile_values
            band == [j \in 1..Len(pv) |-> {5 * (j - 1) + k : k \in 1..5}]
        IN  /\ Len(RatingRows) = 5 * Len(pv)
            /\ \A i \in 1..Len(RatingRows) :
                  /\ Len(RatingRows[i]) = 6
                  /\ IsDateString(RatingRows[i][1])
                  /\ RatingRows[i][2] = 0 /\ RatingRows[i][3] = 1000
                  /\ RatingRows[i][4] = 0 /\ RatingRows[i][6] = 0
                  /\ ~isnan(RatingRows[i][5])
            /\ \A j \in 1..Len(pv) :
                  /\ \A a, b \in band[j] : RatingRows[a][5] = RatingRows[b][5]
                  /\ \A a, b \in band[j] : a # b => RatingRows[a][1] # RatingRows[b][1]
                  /\ \A k \in 1..5 : RatingRows[5 * (j - 1) + k][1] = RatingRows[k][1]
                  \* the band of a threshold comes after the bands of the
                  \* thresholds above it
                  /\ LET above == Cardinality({q \in 1..Len(pv) : pv[q] > pv[j]})
                     IN  RatingRows[5 * above + 1][5] = rs_map(pv)[pv[j]]
            /\ \A a, b \in 1..Len(RatingRows) :
                  a < b => RLeq(RatingRows[b][5], RatingRows[a][5])
            /\ DefinedRS = {} => \A i \in 1..Len(RatingRows) : RatingRows[i][5] = Int2Rat(100)

\* a run that writes the bands of thresholds given out of order, with
\* different RS values
C25_Witness ==
    /\ rpc = "done"
    /\ rating_args.percentile_values = <<9, 98, 49>>
    /\ rating_args.calendar = "sessions"
    /\ RatingRows[1][5] # RatingRows[15][5]

\* a run in which no ticker has a defined RS writes the rating file
C25_NoDefinedRS == rpc = "done" /\ DefinedRS = {} /\ Len(RatingRows) = 35

-----------------------------------------------------------------------------
(* Claims about the partitions of a list, checked under PartSpec.           *)

\* C26: once every part index 0..P-1 has taken its slice, no ticker is in two
\* slices and every ticker of the list is in one.
SliceSet(i) == {pslices[i][k] : k \in 1..Len(pslices[i])}
C26_SlicesPartitionTheList ==
    DOMAIN pslices = 0..(ptotal - 1) =>
        /\ \A i, j \in 0..(ptotal - 1) : i # j => SliceSet(i) \cap SliceSet(j) = {}
        /\ UNION {SliceSet(i) : i \in 0..(ptotal - 1)} = {plist[k] : k \in 1..Len(plist)}
        /\ \A i \in 0..(ptotal - 1) : Cardinality(SliceSet(i)) = Len(pslices[i])

\* a price build whose list does not divide evenly, all parts done
C26_Witness ==
    /\ DOMAIN pslices = 0..(ptotal - 1)
    /\ pscheme = "price"
    /\ ptotal > 1
    /\ Len(plist) % ptotal # 0

\* a metadata build with more parts than the rounded-up slices need
C26_InfoWitness ==
    /\ DOMAIN pslices = 0..(ptotal - 1)
    /\ pscheme = "info"
    /\ pslices[ptotal - 1] = <<>>
    /\ Len(plist) > ptotal

-----------------------------------------------------------------------------
(* Claims about update_stocks.py, checked under UpdSpec.                    *)

\* C27: when the run is over, every symbol whose metadata fetch failed is
\* listed in failed_symbols.json, and every other symbol of the listing has
\* its entry in ticker_info.json: a failure neither stops the run nor goes
\* unrecorded.
C27_FailedSymbolsRecorded ==
    upc = "done" =>
        /\ \A y \in u_raised :
               \E k \in 1..Len(u_files["failed_symbols.json"]) :
                   u_files["failed_symbols.json"][k] = y
        /\ \A k \in 1..Len(u_symbols) :
               u_symbols[k] \notin u_raised => u_symbols[k] \in u_files["ticker_info.json"]

-----------------------------------------------------------------------------
(* Claims about merge_ticker_info, checked under MiSpec.                    *)

\* C29: at every point of the merge, and in the file it writes, the record
\* of a symbol is resolved exactly when one of the valid part files handled
\* so far holds a resolved record of the symbol, whatever the order of the
\* files; no step turns a resolved record into an unresolved one.
IsResolved(rec) ==
    /\ rec.present
    /\ Lower(rec.sector) \notin {"", "n/a", "unknown"}
    /\ Lower(rec.industry) \notin {"", "n/a", "unknown"}
HandledFiles == {ticker_files[k] : k \in 1..mi_pos}
SomeFileResolves(y) ==
    \E f \in HandledFiles : mi_files[f].valid /\ IsResolved(mi_files[f].data[y])
C29_ResolvedIffSomeFileResolved ==
    mipc \in {"files", "done"} =>
        /\ \A y \in MiSymbols : IsResolved(merged[y]) <=> SomeFileResolves(y)
        /\ mi_out.written =>
               \A y \in MiSymbols :
                   IsResolved(mi_out.data[y]) <=>
                       \E f \in MiFileIds :
                           mi_files[f].valid /\ IsResolved(mi_files[f].data[y])

\* a merge that met a resolved record of S1 first and an unresolved one in a
\* later file, and wrote its output
C29_Witness ==
    /\ mi_out.written
    /\ \E a, b \in 1..Len(ticker_files) :
          /\ a < b
          /\ mi_files[ticker_files[a]].valid /\ mi_files[ticker_files[b]].valid
          /\ IsResolved(mi_files[ticker_files[a]].data["S1"])
          /\ mi_files[ticker_files[b]].data["S1"].present
          /\ ~IsResolved(mi_files[ticker_files[b]].data["S1"])

-----------------------------------------------------------------------------
(* Claims about the price build and the price merge, checked under          *)
(* BatchSpec.                                                               *)

\* C30: once merge_price_files has run over the part file, every ticker the
\* price build wrote into the part file is in ticker_price.json.
C30_WrittenRecordsAreMerged ==
    ticker_price.ran =>
        \A e \in part_file.prices :
            ticker_price.written /\ e[1] \in ticker_price.symbols

-----------------------------------------------------------------------------
(* Claims about the shard merger, checked under MergeSpec.                  *)

Contains(i, y) == shards[i].kind = "ok" /\ shards[i].data[y] # "absent"
Good(i, y) == shards[i].kind = "ok" /\ shards[i].data[y] = "ok"
Holders(y) == {i \in ShardIds : Contains(i, y)}
GoodHolders(y) == {i \in ShardIds : Good(i, y)}
LastOf(S) == CHOOSE i \in S : \A j \in S : j <= i
MergeOver == mpc = "done"

\* C4 as stated: after the merge the destination holds, for a symbol present
\* in more than one shard, exactly the series of the shard processed last
\* among those containing it.
C4_LastContainingWins ==
    MergeOver =>
        \A y \in MSymbols :
            Cardinality(Holders(y)) > 1 => dest[y] = <<LastOf(Holders(y))>>

\* C4: after the merge the destination holds, for a symbol present in more
\* than one shard, exactly the series of the shard processed last among those
\* whose series for it was read, passed validation and was written; earlier
\* series are overwritten, never appended to, and when no shard has such a
\* series the destination holds none for the symbol.
C4_LastWrittenWins ==
    MergeOver =>
        \A y \in MSymbols :
            Cardinality(Holders(y)) > 1 =>
                IF GoodHolders(y) = {}
                THEN dest[y] = <<>>
                ELSE dest[y] = <<LastOf(GoodHolders(y))>>

C4_Witness ==
    /\ MergeOver
    /\ \E y \in MSymbols :
           /\ Cardinality(GoodHolders(y)) > 1
           /\ dest[y] = <<LastOf(GoodHolders(y))>>
           /\ y \in duplicate_symbols
    /\ \E y \in MSymbols :
           /\ GoodHolders(y) # {}
           /\ LastOf(Holders(y)) # LastOf(GoodHolders(y))
           /\ dest[y] = <<LastOf(GoodHolders(y))>>

LacksColumn(i, y) ==
    /\ shards[i].kind = "ok"
    /\ shards[i].data[y] \in {"noclose", "nodatetime"}

InSeq(x, q) == \E k \in 1..Len(q) : q[k] = x

\* C5: a series lacking the close or the datetime column is never in the
\* destination, and once the merge is over it is recorded as a failure with
\* its source shard and symbol.
C5_InvalidSeriesExcludedAndRecorded ==
    \A i \in ShardIds, y \in MSymbols :
        LacksColumn(i, y) =>
            /\ ~InSeq(i, dest[y])
            /\ <<i, y>> \notin merged_log
            /\ MergeOver => InSeq(<<i, y, "Missing required columns">>, failed_symbols)

C5_Witness ==
    /\ MergeOver
    /\ \E i \in ShardIds, y \in MSymbols :
           /\ shards[i].data[y] = "nodatetime"
           /\ InSeq(<<i, y, "Missing required columns">>, failed_symbols)
           /\ \E j \in ShardIds : j < i /\ dest[y] = <<j>>
    /\ \E i \in ShardIds, y \in MSymbols :
           /\ shards[i].data[y] = "noclose"
           /\ dest[y] = <<>>

MergeTerminated == ~ENABLED MergeNext

\* C6: a failure on one symbol or on one whole shard never aborts the merge:
\* every valid series of every usable shard is written, and the merge stops
\* only after its summary (or at once, when there is no shard at all).
C6_FailureNeverAborts ==
    /\ MergeOver =>
           \A i \in ShardIds, y \in MSymbols : Good(i, y) => <<i, y>> \in merged_log
    /\ MergeOver =>
           \A y \in MSymbols : GoodHolders(y) # {} => dest[y] # <<>>
    /\ MergeTerminated =>
           \/ MergeOver
           \/ mpc = "returned" /\ \A i \in ShardIds : shards[i].kind = "missing"

C6_Witness ==
    /\ MergeOver
    /\ \E i \in ShardIds :
           /\ shards[i].kind = "ok"
           /\ shards[i].data["A"] \in {"unreadable", "unwritable"}
           /\ InSeq(<<i, "A", "error">>, failed_symbols)
           /\ Good(i, "B")
           /\ <<i, "B">> \in merged_log
    /\ \E i, j \in ShardIds :
           /\ i < j
           /\ shards[i].kind = "broken"
           /\ InSeq(<<i, "N/A", "error">>, failed_symbols)
           /\ \E y \in MSymbols : <<j, y>> \in merged_log

\* C7: merging the same shards a second time, into a fresh destination or
\* into the destination the first merge left, gives the destination of the
\* first merge.
C7_MergeIdempotent ==
    (MergeOver /\ mrun # "first") => dest = first_dest

C7_Witness ==
    /\ MergeOver
    /\ mrun # "first"
    /\ dest = first_dest
    /\ \A y \in MSymbols : Cardinality(GoodHolders(y)) > 1 /\ dest[y] # <<>>
    /\ failed_symbols # <<>>


\* C15 as stated: a merge started while the output of some partition is
\* missing merges no symbol and leaves no unified store.
C15_NoMergeBeforeAllPartitions ==
    (MergeOver /\ \E i \in ShardIds : shards[i].kind = "missing") =>
        /\ dest = EmptyDest
        /\ merged_log = {}

Occurrences == {x \in ShardIds \X MSymbols : Contains(x[1], x[2])}
SymbolFailures == SelectSeq(failed_symbols, LAMBDA f : f[2] # "N/A")
ShardFailures == SelectSeq(failed_symbols, LAMBDA f : f[2] = "N/A")

\* C17: in the merge summary, 'unique symbols' is the number of distinct
\* symbols listed by some shard, 'duplicates' the number of those listed by two
\* or more shards, and (symbols merged) + (symbol-level failures) is the
\* number of symbol occurrences over the shards read.
C17_SummaryConsistent ==
    MergeOver =>
        /\ merge_summary.unique = Cardinality({y \in MSymbols : Holders(y) # {}})
        /\ merge_summary.duplicates =
               Cardinality({y \in MSymbols : Cardinality(Holders(y)) >= 2})
        /\ merge_summary.merged + Len(SymbolFailures) = Cardinality(Occurrences)
        /\ merge_summary.merged = Cardinality(merged_log)
        /\ merge_summary.failed = Len(SymbolFailures) + Len(ShardFailures)
        /\ merge_summary.partitions = Cardinality({i \in ShardIds : shards[i].kind # "missing"})

C17_Witness ==
    /\ MergeOver
    /\ merge_summary.unique = 2
    /\ merge_summary.duplicates = 1
    /\ merge_summary.merged >= 2
    /\ Len(SymbolFailures) >= 1
    /\ Len(ShardFailures) >= 1


-----------------------------------------------------------------------------
(* Claims about the price build, checked under BatchSpec.                   *)

RateLimitedTwice == plan = <<"429", "429", "ok">>
AllQuotesGood == \A s \in PartSymbols : quotes[s] = GoodQuote

\* C10: when the batch request is refused with a rate-limit error twice and
\* gets through the third time, every symbol of the batch is in the part
\* file and none is recorded as failed.
C10_ThirdAttemptSucceeds ==
    (RateLimitedTwice /\ AllQuotesGood /\ bpc = "done") =>
        /\ {e[1] : e \in part_file.prices} = PartSymbols
        /\ all_failed_tickers = <<>>

-----------------------------------------------------------------------------
(* Claims about the fetchers' batches, passes and files.                    *)

\* C11: process_batch makes at most MAX_BATCH_RETRIES attempts of the batch
\* call, and when every attempt of the batch call fails it returns the whole
\* batch as failed with nothing updated.  Stated for the price build, checked
\* under BatchSpec: after the first call of process_batch, if the batch
\* request it made did not get through, no price was taken and every ticker
\* of the batch is in the failed list.
C11_FailedBatchReturnsAllFailed ==
    /\ batch_calls <= MAX_BATCH_RETRIES
    /\ (batch_calls = 1 /\ plan[1] # "ok") =>
           /\ all_prices = {}
           /\ all_failed_tickers = part_tickers

\* C13: in a finished partition run, every ticker that failed in the first
\* pass was put through process_batch exactly twice (first pass and retry
\* sub-pass), no ticker more than twice, and a ticker that succeeded in the
\* first pass exactly once.  Checked under InfoSpec.
C13_FailedRetriedExactlyOnce ==
    \A p \in Parts :
        ipc[p] = "done" =>
            \A y \in InfoSymbols :
                /\ passes[p][y] <= 2
                /\ InSeq(y, all_unresolved[p]) => passes[p][y] = 2
                /\ (InSeq(y, todo[p]) /\ ~InSeq(y, all_unresolved[p])) => passes[p][y] = 1

\* C14: no file is written by the runs of two different partitions.
\* Checked under InfoSpec.
C14_NoFileWrittenByBoth ==
    /\ \A q \in Parts : Cardinality(written_by.part[q]) <= 1
    /\ Cardinality(written_by.unresolved) <= 1
    /\ Cardinality(written_by.summary) <= 1

\* C16: once a partition run has written its unresolved list, every symbol
\* of its slice that needed an update and has no resolved sector and
\* industry is in the list the run wrote.  Checked under InfoSpec.
C16_UnresolvedListComplete ==
    \A p \in Parts :
        ipc[p] \in {"save", "summary", "done"} =>
            \A y \in InfoSymbols :
                (InSeq(y, todo[p]) /\ is_incomplete(existing[p][y]))
                    => InSeq(y, unresolved_final[p])

=============================================================================
